---- MODULE Spec2Model ----
(***************************************************************************)
(* go-occupy: the resource monitor of pkg/occupy/occupy.go, and the memory *)
(* and disk pools of the single-file program (package main), whose         *)
(* definitions carry the prefix main_.                                     *)
(*                                                                         *)
(* Percentages are whole percentage points.  Memory sizes are bytes; disk  *)
(* sizes are MiB (5 GiB per padding file = 5120 MiB), so that every size   *)
(* stays below 2^31.  float64((t - c) / 100.0 * Total), converted to       *)
(* uint64, is floor((t - c) * Total / 100) for the non-negative operands   *)
(* it is applied to; float64 rounding is not modelled.                     *)
(***************************************************************************)
EXTENDS Integers, Sequences, FiniteSets, TLC

(***************************************************************************)
(* Bounds of the model.                                                    *)
(***************************************************************************)
MaxTicks == 2       \* ticker firings taken by the Start loop
MaxCPU == 2         \* largest runtime.NumCPU() considered
MaxTime == 1        \* largest value of time.Now().Unix() considered
MaxCalls == 2       \* exported adjust calls made in the adjust specification
MaxStale == 1       \* spinner goroutines left behind by timed-out stops
NumAllocators == 3  \* goroutines that call allocateMemory at the same time
MaxBlocks == 10     \* blocks a memory pool is grown to by direct calls
MaxChunks == 3      \* chunks held by the pool of pkg/occupy when a direct call adds more
MaxLaunches == 2    \* times the step-by-step CPU load starts its workers

(***************************************************************************)
(* Program constants.                                                      *)
(***************************************************************************)
tolerance == 5                       \* adjustCPUUsage: tolerance := 5.0
memoryReleaseMargin == 5             \* adjustMemoryUsage: MemoryPercent+5
diskCleanupMargin == 5               \* adjustDiskUsage: DiskPercent+5
chunkSize == 100 * 1024 * 1024       \* allocateMemory: 100MB per chunk
fileSize == 5 * 1024                 \* createTempFiles: 5G per file, in MiB
memoryBand == 2                      \* package main, adjustMemoryUsage: MemoryPercent-2, +2

\* the goroutines that call Stop(): two, so that calls can overlap
Callers == {"first", "second"}

Min(a, b) == IF a < b THEN a ELSE b

RECURSIVE SumSeq(_)
SumSeq(s) == IF s = << >> THEN 0 ELSE s[1] + SumSeq(Tail(s))

\* uint64(diff / 100.0 * float64(total)) for diff >= 0, total >= 0, computed
\* without forming diff * total (floor(diff*(100q+r)/100) = diff*q + floor(diff*r/100)).
PercentOfTotal(diff, total) ==
    diff * (total \div 100) + (diff * (total % 100)) \div 100

(***************************************************************************)
(* Memory pool: AllocatedMemory is the sequence of chunk lengths.          *)
(***************************************************************************)
getTotalAllocatedMemory(mem) == SumSeq(mem)

\* the loop of allocateMemory: chunks of chunkSize, the last one the remainder
\* mutant: every chunk is a full one
currentChunk_AlwaysFull(remainingBytes) == chunkSize

\* currentChunk := chunkSize; if remainingBytes < chunkSize { currentChunk = remainingBytes }
currentChunk(remainingBytes) ==
    IF remainingBytes < chunkSize THEN remainingBytes ELSE chunkSize

RECURSIVE allocateMemory(_, _)
allocateMemory(mem, bytes) ==
    IF bytes > 0
    THEN allocateMemory(Append(mem, currentChunk(bytes)), bytes - currentChunk(bytes))
    ELSE mem

\* the release loop of releaseMemory, from index i down, with `released`
\* bytes accounted so far
RECURSIVE releaseLoop(_, _, _, _)
releaseLoop(mem, i, released, targetReleaseBytes) ==
    IF i >= 1 /\ released < targetReleaseBytes
    THEN IF released + mem[i] <= targetReleaseBytes
         THEN releaseLoop(SubSeq(mem, 1, i - 1), i - 1, released + mem[i],
                          targetReleaseBytes)
         ELSE \* rm.AllocatedMemory[i] = rm.AllocatedMemory[i][:remainingBytes]
              LET remainingBytes == targetReleaseBytes - released
              IN  releaseLoop([mem EXCEPT ![i] = remainingBytes], i - 1,
                              released + remainingBytes, targetReleaseBytes)
    ELSE mem

\* mutant: the oldest chunk is cut down instead of the newest
releaseMemory_TruncatesOldest(mem, currentPercent, total, MemoryPercent) ==
    IF Len(mem) = 0
    THEN mem
    ELSE [mem EXCEPT ![1] = 1]

releaseMemory(mem, currentPercent, total, MemoryPercent) ==
    IF Len(mem) = 0
    THEN mem
    ELSE LET wanted == PercentOfTotal(currentPercent - MemoryPercent, total)
             targetReleaseBytes == Min(wanted, getTotalAllocatedMemory(mem))
         IN  releaseLoop(mem, Len(mem), 0, targetReleaseBytes)

cleanupMemory(mem) == << >>

\* which branch adjustMemoryUsage takes
adjustMemoryBranch(currentPercent, MemoryPercent) ==
    IF currentPercent < MemoryPercent THEN "grow"
    ELSE IF currentPercent > MemoryPercent + memoryReleaseMargin THEN "shrink"
    ELSE "noop"

\* mutant: the amount is rounded up instead of truncated
memoryTargetBytes_RoundsUp(currentPercent, total, MemoryPercent) ==
    ((MemoryPercent - currentPercent) * total + 99) \div 100

\* targetBytes of the grow branch of adjustMemoryUsage
memoryTargetBytes(currentPercent, total, MemoryPercent) ==
    PercentOfTotal(MemoryPercent - currentPercent, total)

adjustMemoryUsage(mem, currentPercent, total, MemoryPercent) ==
    CASE adjustMemoryBranch(currentPercent, MemoryPercent) = "grow" ->
            allocateMemory(mem, memoryTargetBytes(currentPercent, total, MemoryPercent))
      [] adjustMemoryBranch(currentPercent, MemoryPercent) = "shrink" ->
            releaseMemory(mem, currentPercent, total, MemoryPercent)
      [] OTHER -> mem

(***************************************************************************)
(* CPU spinner pool.  A pool value is a record                             *)
(*   [ActiveCPULoad, targetCPUWorkers, currentCPUWorkers, liveWorkers];    *)
(* liveWorkers counts the cpuWorker goroutines that have not returned.     *)
(* Operations that wait for the workers with a timeout have several        *)
(* outcomes, so each operation yields the set of possible pool values.     *)
(***************************************************************************)
NewCPUPool ==
    [ActiveCPULoad |-> FALSE, targetCPUWorkers |-> 0,
     currentCPUWorkers |-> 0, liveWorkers |-> 0]

startCPULoadInternal(c) ==
    IF c.ActiveCPULoad
    THEN c
    ELSE [c EXCEPT !.ActiveCPULoad = TRUE,
                   !.currentCPUWorkers = c.targetCPUWorkers,
                   !.liveWorkers = c.liveWorkers + c.targetCPUWorkers]

\* mutant: the worker count is not reset
stopCPULoadInternal_KeepsCount(c) ==
    IF ~c.ActiveCPULoad
    THEN {c}
    ELSE { [c EXCEPT !.ActiveCPULoad = FALSE,
                     !.liveWorkers = k] : k \in 0 .. Min(c.liveWorkers, MaxStale) }

\* close(cpuLoadStop); then either every worker has returned (<-done) or the
\* 3 s timer fires first and some workers are still running.
stopCPULoadInternal(c) ==
    IF ~c.ActiveCPULoad
    THEN {c}
    ELSE { [c EXCEPT !.ActiveCPULoad = FALSE,
                     !.currentCPUWorkers = 0,
                     !.liveWorkers = k] : k \in 0 .. Min(c.liveWorkers, MaxStale) }

stopCPULoad(c) ==
    IF c.ActiveCPULoad THEN stopCPULoadInternal(c) ELSE {c}

adjustCPUWorkers(c, targetWorkers) ==
    IF c.targetCPUWorkers = targetWorkers
    THEN {c}
    ELSE LET c1 == [c EXCEPT !.targetCPUWorkers = targetWorkers]
         IN  IF targetWorkers = 0
             THEN IF c1.ActiveCPULoad THEN stopCPULoadInternal(c1) ELSE {c1}
             ELSE IF ~c1.ActiveCPULoad
                  THEN {startCPULoadInternal(c1)}
                  ELSE IF c1.currentCPUWorkers # targetWorkers
                       THEN {startCPULoadInternal(c2) : c2 \in stopCPULoadInternal(c1)}
                       ELSE {c1}

\* which branch adjustCPUUsage takes
adjustCPUBranch(currentPercent, CPUPercent) ==
    IF currentPercent < CPUPercent - tolerance THEN "grow"
    ELSE IF currentPercent > CPUPercent + tolerance THEN "shrink"
    ELSE "noop"

\* targetWorkers of the grow branch: int(CPUPercent / 100.0 * NumCPU), then
\* raised to 1 and lowered to NumCPU
cpuTargetWorkers(CPUPercent, numCPU) ==
    LET w == (CPUPercent * numCPU) \div 100
        w1 == IF w < 1 THEN 1 ELSE w
    IN  IF w1 > numCPU THEN numCPU ELSE w1

adjustCPUUsage(c, currentPercent, CPUPercent, numCPU) ==
    CASE adjustCPUBranch(currentPercent, CPUPercent) = "grow" ->
            adjustCPUWorkers(c, cpuTargetWorkers(CPUPercent, numCPU))
      [] adjustCPUBranch(currentPercent, CPUPercent) = "shrink" ->
            adjustCPUWorkers(c, 0)
      [] OTHER -> {c}

(***************************************************************************)
(* Disk padding files.  The temp directory is a function from file names   *)
(* to sizes.  A name is a record: pad tells whether it matches             *)
(* go_occupy_temp_*.dat; engine names carry the timestamp and the index    *)
(* of fmt.Sprintf("go_occupy_temp_%d_%d.dat", time.Now().Unix(), index).   *)
(* os.Remove of a file that Glob has just listed is taken to succeed.      *)
(***************************************************************************)
PadName(ts, idx) == [pad |-> TRUE, ts |-> ts, idx |-> idx]
ForeignPad == [pad |-> TRUE, ts |-> -1, idx |-> 0]    \* matching name made by someone else
Unrelated == [pad |-> FALSE, ts |-> -1, idx |-> 0]    \* a name that does not match

Matches_EngineOnly(name) == name.pad /\ name.ts >= 0

Matches(name) == name.pad

WriteFile(dir, name, size) ==
    [n \in DOMAIN dir \cup {name} |-> IF n = name THEN size ELSE dir[n]]

RemoveFile(dir, name) == [n \in DOMAIN dir \ {name} |-> dir[n]]

PaddingFiles(dir) == {n \in DOMAIN dir : Matches(n)}

\* failKind is "none", "mkdir" (os.MkdirAll fails), "create" (os.Create fails)
\* or "write" (file.Write fails)
\* the loop of createTempFiles; the file with index failAt fails as failKind says
RECURSIVE createLoop(_, _, _, _, _, _)
createLoop(dir, remainingBytes, fileIndex, ts, failKind, failAt) ==
    IF remainingBytes > 0
    THEN LET currentFileSize == IF remainingBytes < fileSize THEN remainingBytes ELSE fileSize
             name == PadName(ts, fileIndex)
         IN  IF failKind = "create" /\ fileIndex = failAt
             THEN dir
             ELSE IF failKind = "write" /\ fileIndex = failAt
                  THEN RemoveFile(dir, name)
                  ELSE createLoop(WriteFile(dir, name, currentFileSize),
                                  remainingBytes - currentFileSize, fileIndex + 1,
                                  ts, failKind, failAt)
    ELSE dir

createTempFiles(dir, targetBytes, ts, failKind, failAt) ==
    IF failKind = "mkdir"
    THEN dir
    ELSE createLoop(dir, targetBytes, 0, ts, failKind, failAt)

cleanupTempFiles(dir) == [n \in DOMAIN dir \ PaddingFiles(dir) |-> dir[n]]

\* mutant: only the names this monitor generates are deleted
cleanupAllTempFiles_OwnNamesOnly(dir) ==
    [n \in {m \in DOMAIN dir : ~(Matches(m) /\ m.ts >= 0)} |-> dir[n]]

cleanupAllTempFiles(dir) == [n \in DOMAIN dir \ PaddingFiles(dir) |-> dir[n]]

\* which branch adjustDiskUsage takes
adjustDiskBranch(currentPercent, DiskPercent) ==
    IF currentPercent < DiskPercent THEN "grow"
    ELSE IF currentPercent > DiskPercent + diskCleanupMargin THEN "shrink"
    ELSE "noop"

\* targetBytes of the grow branch of adjustDiskUsage
diskTargetBytes(currentPercent, total, DiskPercent) ==
    PercentOfTotal(DiskPercent - currentPercent, total)

adjustDiskUsage(dir, currentPercent, total, DiskPercent, ts, failKind, failAt) ==
    CASE adjustDiskBranch(currentPercent, DiskPercent) = "grow" ->
            createTempFiles(dir, diskTargetBytes(currentPercent, total, DiskPercent),
                            ts, failKind, failAt)
      [] adjustDiskBranch(currentPercent, DiskPercent) = "shrink" ->
            cleanupTempFiles(dir)
      [] OTHER -> dir

(***************************************************************************)
(* The single-file program (package main), whose tests call its methods    *)
(* directly.  Its pools: allocatedMemory, one block per allocateMemory     *)
(* call, and the files /tmp/occupy_<unix time>_<index>.tmp.                *)
(***************************************************************************)
\* allocateMemory: one block of `bytes`, none for 0 bytes
main_allocateMemory(mem, bytes) ==
    IF bytes = 0 THEN mem ELSE Append(mem, bytes)

\* releaseRatio of releaseMemory, in percent
main_releaseRatio(excessPercent) ==
    IF excessPercent <= 5 THEN 30
    ELSE IF excessPercent <= 10 THEN 50
    ELSE 70

\* blocksToRelease := int(float64(len(rm.allocatedMemory)) * releaseRatio), at
\* least 1 (the float64 product truncates to the exact integer part for the
\* pool lengths considered here, all below 90)
main_blocksToRelease(mem, excessPercent) ==
    LET n == (Len(mem) * main_releaseRatio(excessPercent)) \div 100
    IN  IF n < 1 THEN 1 ELSE n

\* releaseMemory: the last blocksToRelease blocks are dropped
main_releaseMemory(mem, currentPercent, MemoryPercent) ==
    IF Len(mem) = 0
    THEN mem
    ELSE SubSeq(mem, 1,
                Len(mem) - Min(main_blocksToRelease(mem, currentPercent - MemoryPercent),
                               Len(mem)))

\* which branch adjustMemoryUsage takes
main_adjustMemoryBranch(currentPercent, MemoryPercent) ==
    IF currentPercent < MemoryPercent - memoryBand THEN "grow"
    ELSE IF currentPercent > MemoryPercent + memoryBand THEN "shrink"
    ELSE "noop"

main_adjustMemoryUsage(mem, currentPercent, total, MemoryPercent) ==
    CASE main_adjustMemoryBranch(currentPercent, MemoryPercent) = "grow" ->
            main_allocateMemory(mem, PercentOfTotal(MemoryPercent - currentPercent, total))
      [] main_adjustMemoryBranch(currentPercent, MemoryPercent) = "shrink" ->
            main_releaseMemory(mem, currentPercent, MemoryPercent)
      [] OTHER -> mem

\* createTempFiles of the single-file program: numFiles := targetBytes/fileSize + 1
\* files, each written to the full fileSize; a file whose os.Create fails is
\* skipped, one whose first file.Write fails is left empty.  Every step first
\* looks at rm.stop: with the stop signal closed nothing is created.
main_numFiles(targetBytes) == targetBytes \div fileSize + 1

RECURSIVE main_createLoop(_, _, _, _, _, _)
main_createLoop(dir, i, numFiles, ts, failKind, failAt) ==
    IF i < numFiles
    THEN IF failKind = "create" /\ i = failAt
         THEN main_createLoop(dir, i + 1, numFiles, ts, failKind, failAt)
         ELSE main_createLoop(WriteFile(dir, PadName(ts, i),
                                        IF failKind = "write" /\ i = failAt
                                        THEN 0 ELSE fileSize),
                              i + 1, numFiles, ts, failKind, failAt)
    ELSE dir

main_createTempFiles(dir, targetBytes, ts, stopClosed, failKind, failAt) ==
    IF stopClosed
    THEN dir
    ELSE main_createLoop(dir, 0, main_numFiles(targetBytes), ts, failKind, failAt)

\* cleanupTempFiles of the single-file program: rm -f /tmp/occupy_*.tmp
main_cleanupTempFiles(dir) == [n \in DOMAIN dir \ PaddingFiles(dir) |-> dir[n]]

(***************************************************************************)
(* State.                                                                  *)
(***************************************************************************)
VARIABLES
    Config,           \* rm.Config: MemoryPercent, CPUPercent, DiskPercent
    numCPU,           \* runtime.NumCPU()
    stop,             \* rm.stop: "open" or "closed"
    cleanupDone,      \* rm.cleanupDone: "open" or "closed"
    panicked,         \* a goroutine panicked (close of closed channel): the process is gone
    startPc,          \* where the goroutine running Start() is
    tickLocal,        \* locals of monitorAndAdjust that are read later in the tick
    stopPc,           \* where each caller of Stop() is
    stopVia,          \* how each Stop() call returned
    cpuPool,          \* ActiveCPULoad, targetCPUWorkers, currentCPUWorkers, live workers
    AllocatedMemory,  \* rm.AllocatedMemory, as chunk lengths
    tempDir,          \* the temp directory: file name -> size
    now,              \* time.Now().Unix()
    ticks,            \* ticker firings taken so far
    calls,            \* exported calls made so far by the caller's thread
    tickLog,          \* history: adjustments invoked by the tick, in order (kept
                      \* after a tick that ran to its end, until the next one)
    cleanupLog,       \* history: steps of cleanupAllResources taken, in order
    lastCall,         \* history: the last call of a pool operation: its arguments,
                      \* what it decided and the pool (`before`) it was made on
    memoryMutex,      \* rm.memoryMutex: the goroutine that holds it, 0 if unlocked
    allocators,       \* the goroutines that run allocateMemory concurrently: where
                      \* each one is, and its locals
    tickApplied,      \* history: the pools the tick that is running has changed
    spinners,         \* the CPU load step by step: rm.cpuLoadStop, rm.cpuLoadWg,
                      \* the cpuWorker goroutines and the stop that is waiting
    creating,         \* a createTempFiles call in progress: where it is, its locals
    poolLocks,        \* the thread that holds each pool mutex, "" if unlocked
    threads,          \* the call stack of each thread that runs pool operations
    startedAfterStop  \* history: Start() was called with rm.stop already closed

\* the state of the step-by-step models of the pools, and of a late Start()
stepVars == <<spinners, creating, poolLocks, threads, startedAfterStop>>

vars == <<Config, numCPU, memoryMutex, allocators, stepVars, tickApplied, stop, cleanupDone, panicked, startPc, tickLocal, stopPc,
          stopVia, cpuPool, AllocatedMemory, tempDir, now, ticks, calls, tickLog,
          cleanupLog, lastCall>>

NoSample == [pct |-> -1, total |-> 0]
NoLocals == [cpu |-> -1, disk |-> NoSample, mem |-> NoSample]
NoCall == [op |-> "none", currentPercent |-> 0, total |-> 0, branch |-> "noop",
           amount |-> 0, heldBefore |-> 0, before |-> << >>]

\* the CPU load before any worker was started: rm.cpuLoadStop is the channel
\* NewResourceMonitor made (number 0), rm.cpuLoadWg counts nothing
\* Channels are numbered in the order they are made; wgGen counts the
\* WaitGroup values that rm.cpuLoadWg has held, cpuLoadWg is the counter of the
\* one it holds now.
NoSpinners ==
    [cpuLoadStop |-> 0, made |-> 0, closed |-> {}, cpuLoadWg |-> 0, wgGen |-> 0,
     workers |-> << >>, stopPc |-> "idle", restart |-> 0, launches |-> 0]

\* no createTempFiles call is in progress
\* (afterStop is history: the files the call has written in full after the
\* stop signal was closed; cleaned is history: cleanupAllTempFiles has run
\* while the call was in progress)
NotCreating ==
    [pc |-> "idle", remainingBytes |-> 0, fileIndex |-> 0, afterStop |-> 0,
     cleaned |-> FALSE]

\* the pool mutexes of the monitor, and the threads that call pool operations
Mutexes == {"cpuLoadMutex", "memoryMutex", "diskMutex"}
Threads == {"loop", "caller"}

\* the goroutines of a concurrent allocation, and one that has not called yet
Allocators == 1 .. NumAllocators
IdleAllocator == [pc |-> "idle", bytes |-> 0, remainingBytes |-> 0, read |-> << >>]

\* the temp directory before the monitor runs: a matching file left by someone
\* else and an unrelated file
InitialDir == [n \in {ForeignPad, Unrelated} |-> 1]

\* NewResourceMonitor, with the state of the environment; the CPU stop
\* channel is left to the program modelled
InitFields(configs, cpus) ==
    /\ Config \in configs
    /\ numCPU \in cpus
    /\ stop = "open"
    /\ cleanupDone = "open"
    /\ panicked = FALSE
    /\ startPc = "idle"
    /\ tickLocal = NoLocals
    /\ stopPc = [c \in Callers |-> "idle"]
    /\ stopVia = [c \in Callers |-> "none"]
    /\ cpuPool = NewCPUPool
    /\ AllocatedMemory = << >>
    /\ tempDir = InitialDir
    /\ now = 0
    /\ ticks = 0
    /\ calls = 0
    /\ tickLog = << >>
    /\ cleanupLog = << >>
    /\ lastCall = NoCall
    /\ memoryMutex = 0
    /\ allocators = [g \in Allocators |-> IdleAllocator]
    /\ tickApplied = {}
    /\ creating = NotCreating
    /\ poolLocks = [m \in Mutexes |-> ""]
    /\ threads = [t \in Threads |-> << >>]
    /\ startedAfterStop = FALSE

\* NewResourceMonitor of pkg/occupy
InitWith(configs, cpus) ==
    /\ InitFields(configs, cpus)
    /\ spinners = NoSpinners

(***************************************************************************)
(* Stop(), one step per channel operation.                                 *)
(***************************************************************************)
\* mutant: the first select of Stop() is missing, every call goes on to close
StopSelect_NoEarlyReturn(c) ==
    /\ ~panicked
    /\ stopPc[c] = "idle"
    /\ stopPc' = [stopPc EXCEPT ![c] = "close"]
    /\ UNCHANGED <<Config, numCPU, memoryMutex, allocators, stepVars, tickApplied, stop, cleanupDone, panicked, startPc, tickLocal,
                   stopVia, cpuPool, AllocatedMemory, tempDir, now, ticks, calls,
                   tickLog, cleanupLog, lastCall>>

\* select { case <-rm.stop: return; default: ... }
StopSelect(c) ==
    /\ ~panicked
    /\ stopPc[c] = "idle"
    /\ IF stop = "closed"
       THEN /\ stopPc' = [stopPc EXCEPT ![c] = "returned"]
            /\ stopVia' = [stopVia EXCEPT ![c] = "early"]
       ELSE /\ stopPc' = [stopPc EXCEPT ![c] = "close"]
            /\ UNCHANGED stopVia
    /\ UNCHANGED <<Config, numCPU, memoryMutex, allocators, stepVars, tickApplied, stop, cleanupDone, panicked, startPc, tickLocal,
                   cpuPool, AllocatedMemory, tempDir, now, ticks, calls, tickLog,
                   cleanupLog, lastCall>>

\* close(rm.stop): closing a closed channel panics
StopClose(c) ==
    /\ ~panicked
    /\ stopPc[c] = "close"
    /\ IF stop = "closed"
       THEN /\ panicked' = TRUE
            /\ stopPc' = [stopPc EXCEPT ![c] = "panic"]
            /\ UNCHANGED stop
       ELSE /\ stop' = "closed"
            /\ stopPc' = [stopPc EXCEPT ![c] = "wait"]
            /\ UNCHANGED panicked
    /\ UNCHANGED <<Config, numCPU, memoryMutex, allocators, stepVars, tickApplied, cleanupDone, startPc, tickLocal, stopVia,
                   cpuPool, AllocatedMemory, tempDir, now, ticks, calls, tickLog,
                   cleanupLog, lastCall>>

\* case <-rm.cleanupDone
StopWaitDone(c) ==
    /\ ~panicked
    /\ stopPc[c] = "wait"
    /\ cleanupDone = "closed"
    /\ stopPc' = [stopPc EXCEPT ![c] = "returned"]
    /\ stopVia' = [stopVia EXCEPT ![c] = "done"]
    /\ UNCHANGED <<Config, numCPU, memoryMutex, allocators, stepVars, tickApplied, stop, cleanupDone, panicked, startPc, tickLocal,
                   cpuPool, AllocatedMemory, tempDir, now, ticks, calls, tickLog,
                   cleanupLog, lastCall>>

\* case <-time.After(60 * time.Second)
StopWaitTimeout(c) ==
    /\ ~panicked
    /\ stopPc[c] = "wait"
    /\ stopPc' = [stopPc EXCEPT ![c] = "returned"]
    /\ stopVia' = [stopVia EXCEPT ![c] = "timeout"]
    /\ UNCHANGED <<Config, numCPU, memoryMutex, allocators, stepVars, tickApplied, stop, cleanupDone, panicked, startPc, tickLocal,
                   cpuPool, AllocatedMemory, tempDir, now, ticks, calls, tickLog,
                   cleanupLog, lastCall>>

(***************************************************************************)
(* Start(): the select loop, monitorAndAdjust step by step, and the        *)
(* cleanup pass.                                                           *)
(***************************************************************************)
\* go monitor.Start(): the goroutine reaches the select of the loop
GoStart ==
    /\ ~panicked
    /\ startPc = "idle"
    /\ startPc' = "select"
    /\ UNCHANGED <<Config, numCPU, memoryMutex, allocators, stepVars, tickApplied, stop, cleanupDone, panicked, tickLocal, stopPc,
                   stopVia, cpuPool, AllocatedMemory, tempDir, now, ticks, calls,
                   tickLog, cleanupLog, lastCall>>

\* case <-ticker.C: rm.monitorAndAdjust()
TickerFires ==
    /\ ~panicked
    /\ startPc = "select"
    /\ ticks < MaxTicks
    /\ startPc' = "chk1"
    /\ ticks' = ticks + 1
    /\ tickLog' = << >>
    /\ tickApplied' = {}
    /\ UNCHANGED <<Config, numCPU, memoryMutex, allocators, stepVars, stop, cleanupDone, panicked, tickLocal, stopPc,
                   stopVia, cpuPool, AllocatedMemory, tempDir, now, calls,
                   cleanupLog, lastCall>>

\* mutant: the loop ends without the cleanup pass
SelectStop_SkipsCleanup ==
    /\ ~panicked
    /\ startPc = "select"
    /\ stop = "closed"
    /\ startPc' = "closeDone"
    /\ tickLog' = << >>
    /\ tickApplied' = {}
    /\ UNCHANGED <<Config, numCPU, memoryMutex, allocators, stepVars, stop, cleanupDone, panicked, tickLocal, stopPc,
                   stopVia, cpuPool, AllocatedMemory, tempDir, now, ticks, calls,
                   cleanupLog, lastCall>>

\* case <-rm.stop: the loop ends and the cleanup pass begins
SelectStop ==
    /\ ~panicked
    /\ startPc = "select"
    /\ stop = "closed"
    /\ startPc' = "cleanupCPU"
    /\ tickLog' = << >>
    /\ tickApplied' = {}
    /\ UNCHANGED <<Config, numCPU, memoryMutex, allocators, stepVars, stop, cleanupDone, panicked, tickLocal, stopPc,
                   stopVia, cpuPool, AllocatedMemory, tempDir, now, ticks, calls,
                   cleanupLog, lastCall>>

\* the statement that follows each stop check of monitorAndAdjust
AfterCheck ==
    [chk1 |-> "smem", chk2 |-> "scpu", chk3 |-> "sdisk", chk4 |-> "adisk",
     chk5 |-> "sleep", chk6 |-> "smem2", chk7 |-> "amem", chk8 |-> "acpu"]

\* mutant: the stop checks of monitorAndAdjust never see the stop signal
TickCheckStop_IgnoresStop ==
    /\ ~panicked
    /\ startPc \in DOMAIN AfterCheck
    /\ startPc' = AfterCheck[startPc]
    /\ UNCHANGED <<Config, numCPU, memoryMutex, allocators, stepVars, tickApplied, stop, cleanupDone, panicked, stopPc, stopVia,
                   cpuPool, AllocatedMemory, tempDir, now, ticks, calls,
                   cleanupLog, lastCall, tickLocal, tickLog>>

\* select { case <-rm.stop: return; default: }
TickCheckStop ==
    /\ ~panicked
    /\ startPc \in DOMAIN AfterCheck
    /\ IF stop = "closed"
       THEN /\ startPc' = "select"
            /\ tickLocal' = NoLocals
            /\ tickLog' = << >>
       ELSE /\ startPc' = AfterCheck[startPc]
            /\ UNCHANGED <<tickLocal, tickLog>>
    /\ tickApplied' = (IF stop = "closed" THEN {} ELSE tickApplied)
    /\ UNCHANGED <<Config, numCPU, memoryMutex, allocators, stepVars, stop, cleanupDone, panicked, stopPc, stopVia,
                   cpuPool, AllocatedMemory, tempDir, now, ticks, calls,
                   cleanupLog, lastCall>>

\* mutant: a failed sampling call ends the loop and starts the cleanup pass
SampleFails_EndsLoop ==
    /\ ~panicked
    /\ startPc \in {"smem", "scpu", "sdisk", "smem2"}
    /\ startPc' = "cleanupCPU"
    /\ tickLocal' = NoLocals
    /\ tickLog' = << >>
    /\ tickApplied' = {}
    /\ UNCHANGED <<Config, numCPU, memoryMutex, allocators, stepVars, stop, cleanupDone, panicked, stopPc, stopVia,
                   cpuPool, AllocatedMemory, tempDir, now, ticks, calls,
                   cleanupLog, lastCall>>

\* a sampling call returned an error: the tick returns
SampleFails ==
    /\ ~panicked
    /\ startPc \in {"smem", "scpu", "sdisk", "smem2"}
    /\ startPc' = "select"
    /\ tickLocal' = NoLocals
    /\ tickLog' = << >>
    /\ tickApplied' = {}
    /\ UNCHANGED <<Config, numCPU, memoryMutex, allocators, stepVars, stop, cleanupDone, panicked, stopPc, stopVia,
                   cpuPool, AllocatedMemory, tempDir, now, ticks, calls,
                   cleanupLog, lastCall>>

\* memInfo, err := mem.VirtualMemory(): the first sample is only logged
SampleMemory ==
    /\ ~panicked
    /\ startPc = "smem"
    /\ startPc' = "chk2"
    /\ UNCHANGED <<Config, numCPU, memoryMutex, allocators, stepVars, tickApplied, stop, cleanupDone, panicked, tickLocal, stopPc,
                   stopVia, cpuPool, AllocatedMemory, tempDir, now, ticks, calls,
                   tickLog, cleanupLog, lastCall>>

\* cpuPercent, err := cpu.Percent(0, false)
SampleCPU(pct) ==
    /\ ~panicked
    /\ startPc = "scpu"
    /\ startPc' = "chk3"
    /\ tickLocal' = [tickLocal EXCEPT !.cpu = pct]
    /\ UNCHANGED <<Config, numCPU, memoryMutex, allocators, stepVars, tickApplied, stop, cleanupDone, panicked, stopPc, stopVia,
                   cpuPool, AllocatedMemory, tempDir, now, ticks, calls, tickLog,
                   cleanupLog, lastCall>>

\* diskInfo, err := disk.Usage("/")
SampleDisk(pct, total) ==
    /\ ~panicked
    /\ startPc = "sdisk"
    /\ startPc' = "chk4"
    /\ tickLocal' = [tickLocal EXCEPT !.disk = [pct |-> pct, total |-> total]]
    /\ UNCHANGED <<Config, numCPU, memoryMutex, allocators, stepVars, tickApplied, stop, cleanupDone, panicked, stopPc, stopVia,
                   cpuPool, AllocatedMemory, tempDir, now, ticks, calls, tickLog,
                   cleanupLog, lastCall>>

\* rm.adjustDiskUsage(currentDiskPercent, diskInfo)
TickAdjustDisk(failKind, failAt) ==
    /\ ~panicked
    /\ startPc = "adisk"
    /\ startPc' = "chk5"
    /\ tempDir' = adjustDiskUsage(tempDir, tickLocal.disk.pct, tickLocal.disk.total,
                                  Config.DiskPercent, now, failKind, failAt)
    /\ tickLocal' = [tickLocal EXCEPT !.disk = NoSample]
    /\ tickLog' = Append(tickLog, "disk")
    /\ tickApplied' = tickApplied \cup (IF tempDir' # tempDir THEN {"disk"} ELSE {})
    /\ UNCHANGED <<Config, numCPU, memoryMutex, allocators, stepVars, stop, cleanupDone, panicked, stopPc, stopVia,
                   cpuPool, AllocatedMemory, now, ticks, calls, cleanupLog, lastCall>>

\* time.Sleep(500 * time.Millisecond)
TickSleep ==
    /\ ~panicked
    /\ startPc = "sleep"
    /\ startPc' = "chk6"
    /\ UNCHANGED <<Config, numCPU, memoryMutex, allocators, stepVars, tickApplied, stop, cleanupDone, panicked, tickLocal, stopPc,
                   stopVia, cpuPool, AllocatedMemory, tempDir, now, ticks, calls,
                   tickLog, cleanupLog, lastCall>>

\* memInfoAfterDisk, err := mem.VirtualMemory()
ResampleMemory(pct, total) ==
    /\ ~panicked
    /\ startPc = "smem2"
    /\ startPc' = "chk7"
    /\ tickLocal' = [tickLocal EXCEPT !.mem = [pct |-> pct, total |-> total]]
    /\ UNCHANGED <<Config, numCPU, memoryMutex, allocators, stepVars, tickApplied, stop, cleanupDone, panicked, stopPc, stopVia,
                   cpuPool, AllocatedMemory, tempDir, now, ticks, calls, tickLog,
                   cleanupLog, lastCall>>

\* rm.adjustMemoryUsage(memInfoAfterDisk.UsedPercent, memInfoAfterDisk)
TickAdjustMemory ==
    /\ ~panicked
    /\ startPc = "amem"
    /\ startPc' = "chk8"
    /\ AllocatedMemory' = adjustMemoryUsage(AllocatedMemory, tickLocal.mem.pct,
                                            tickLocal.mem.total, Config.MemoryPercent)
    /\ tickLocal' = [tickLocal EXCEPT !.mem = NoSample]
    /\ tickLog' = Append(tickLog, "mem")
    /\ tickApplied' = tickApplied \cup (IF AllocatedMemory' # AllocatedMemory THEN {"mem"} ELSE {})
    /\ UNCHANGED <<Config, numCPU, memoryMutex, allocators, stepVars, stop, cleanupDone, panicked, stopPc, stopVia,
                   cpuPool, tempDir, now, ticks, calls, cleanupLog, lastCall>>

\* rm.adjustCPUUsage(currentCPUPercent); monitorAndAdjust returns
TickAdjustCPU ==
    /\ ~panicked
    /\ startPc = "acpu"
    /\ startPc' = "select"
    /\ cpuPool' \in adjustCPUUsage(cpuPool, tickLocal.cpu, Config.CPUPercent, numCPU)
    /\ tickLocal' = NoLocals
    /\ tickLog' = Append(tickLog, "cpu")
    /\ tickApplied' = {}
    /\ UNCHANGED <<Config, numCPU, memoryMutex, allocators, stepVars, stop, cleanupDone, panicked, stopPc, stopVia,
                   AllocatedMemory, tempDir, now, ticks, calls, cleanupLog, lastCall>>

\* cleanupAllResources: rm.stopCPULoad()
CleanupCPU ==
    /\ ~panicked
    /\ startPc = "cleanupCPU"
    /\ startPc' = "cleanupMem"
    /\ cpuPool' \in stopCPULoad(cpuPool)
    /\ cleanupLog' = Append(cleanupLog, "cpu")
    /\ UNCHANGED <<Config, numCPU, memoryMutex, allocators, stepVars, tickApplied, stop, cleanupDone, panicked, tickLocal, stopPc,
                   stopVia, AllocatedMemory, tempDir, now, ticks, calls, tickLog,
                   lastCall>>

\* cleanupAllResources: rm.cleanupMemory()
CleanupMem ==
    /\ ~panicked
    /\ startPc = "cleanupMem"
    /\ startPc' = "cleanupDisk"
    /\ AllocatedMemory' = cleanupMemory(AllocatedMemory)
    /\ cleanupLog' = Append(cleanupLog, "mem")
    /\ UNCHANGED <<Config, numCPU, memoryMutex, allocators, stepVars, tickApplied, stop, cleanupDone, panicked, tickLocal, stopPc,
                   stopVia, cpuPool, tempDir, now, ticks, calls, tickLog, lastCall>>

\* cleanupAllResources: rm.cleanupAllTempFiles(), runtime.GC()
CleanupDisk ==
    /\ ~panicked
    /\ startPc = "cleanupDisk"
    /\ startPc' = "closeDone"
    /\ tempDir' = cleanupAllTempFiles(tempDir)
    /\ cleanupLog' = Append(cleanupLog, "disk")
    /\ UNCHANGED <<Config, numCPU, memoryMutex, allocators, stepVars, tickApplied, stop, cleanupDone, panicked, tickLocal, stopPc,
                   stopVia, cpuPool, AllocatedMemory, now, ticks, calls, tickLog,
                   lastCall>>

\* close(rm.cleanupDone); return
CloseCleanupDone ==
    /\ ~panicked
    /\ startPc = "closeDone"
    /\ IF cleanupDone = "closed"
       THEN /\ panicked' = TRUE
            /\ startPc' = "panic"
            /\ UNCHANGED cleanupDone
       ELSE /\ cleanupDone' = "closed"
            /\ startPc' = "returned"
            /\ UNCHANGED panicked
    /\ UNCHANGED <<Config, numCPU, memoryMutex, allocators, stepVars, tickApplied, stop, tickLocal, stopPc, stopVia, cpuPool,
                   AllocatedMemory, tempDir, now, ticks, calls, tickLog, cleanupLog,
                   lastCall>>

\* the thread that owns the monitor has neither launched Start() nor called Stop()
CallerIsFree ==
    /\ ~panicked
    /\ startPc = "idle"
    /\ \A c \in Callers : stopPc[c] = "idle"
    /\ calls < MaxCalls

\* a second of wall-clock time passes; the clock is read only by createTempFiles,
\* so it is advanced only where the next step may read it
TimePasses ==
    /\ ~panicked
    /\ now < MaxTime
    /\ startPc = "adisk" \/ CallerIsFree
    /\ now' = now + 1
    /\ UNCHANGED <<Config, numCPU, memoryMutex, allocators, stepVars, tickApplied, stop, cleanupDone, panicked, startPc, tickLocal,
                   stopPc, stopVia, cpuPool, AllocatedMemory, tempDir, ticks, calls,
                   tickLog, cleanupLog, lastCall>>

(***************************************************************************)
(* Exported calls made by the thread that owns the monitor, before it      *)
(* launches Start() or calls Stop() (as the tests do).                     *)
(***************************************************************************)

\* AllocateMemory(bytes)
CallAllocateMemory(bytes) ==
    /\ CallerIsFree
    /\ calls' = calls + 1
    /\ AllocatedMemory' = allocateMemory(AllocatedMemory, bytes)
    /\ UNCHANGED <<Config, numCPU, memoryMutex, allocators, stepVars, tickApplied, stop, cleanupDone, panicked, startPc, tickLocal,
                   stopPc, stopVia, cpuPool, tempDir, now, ticks, tickLog,
                   cleanupLog, lastCall>>

\* AdjustMemoryUsage(currentPercent, memInfo)
CallAdjustMemoryUsage(currentPercent, total) ==
    /\ CallerIsFree
    /\ calls' = calls + 1
    /\ AllocatedMemory' = adjustMemoryUsage(AllocatedMemory, currentPercent, total,
                                            Config.MemoryPercent)
    /\ lastCall' =
          [op |-> "mem", currentPercent |-> currentPercent, total |-> total,
           branch |-> adjustMemoryBranch(currentPercent, Config.MemoryPercent),
           amount |-> IF adjustMemoryBranch(currentPercent, Config.MemoryPercent) = "grow"
                      THEN memoryTargetBytes(currentPercent, total, Config.MemoryPercent)
                      ELSE 0,
           heldBefore |-> getTotalAllocatedMemory(AllocatedMemory),
           before |-> AllocatedMemory]
    /\ UNCHANGED <<Config, numCPU, memoryMutex, allocators, stepVars, tickApplied, stop, cleanupDone, panicked, startPc, tickLocal,
                   stopPc, stopVia, cpuPool, tempDir, now, ticks, tickLog, cleanupLog>>

\* AdjustCPUUsage(currentPercent)
CallAdjustCPUUsage(currentPercent) ==
    /\ CallerIsFree
    /\ calls' = calls + 1
    /\ cpuPool' \in adjustCPUUsage(cpuPool, currentPercent, Config.CPUPercent, numCPU)
    /\ lastCall' =
          [op |-> "cpu", currentPercent |-> currentPercent, total |-> numCPU,
           branch |-> adjustCPUBranch(currentPercent, Config.CPUPercent),
           amount |-> IF adjustCPUBranch(currentPercent, Config.CPUPercent) = "grow"
                      THEN cpuTargetWorkers(Config.CPUPercent, numCPU)
                      ELSE 0,
           heldBefore |-> cpuPool.currentCPUWorkers,
           before |-> cpuPool]
    /\ UNCHANGED <<Config, numCPU, memoryMutex, allocators, stepVars, tickApplied, stop, cleanupDone, panicked, startPc, tickLocal,
                   stopPc, stopVia, AllocatedMemory, tempDir, now, ticks, tickLog,
                   cleanupLog>>

\* AdjustDiskUsage(currentPercent, diskInfo)
CallAdjustDiskUsage(currentPercent, total, failKind, failAt) ==
    /\ CallerIsFree
    /\ calls' = calls + 1
    /\ tempDir' = adjustDiskUsage(tempDir, currentPercent, total, Config.DiskPercent,
                                  now, failKind, failAt)
    /\ lastCall' =
          [op |-> "disk", currentPercent |-> currentPercent, total |-> total,
           branch |-> adjustDiskBranch(currentPercent, Config.DiskPercent),
           amount |-> IF adjustDiskBranch(currentPercent, Config.DiskPercent) = "grow"
                      THEN diskTargetBytes(currentPercent, total, Config.DiskPercent)
                      ELSE 0,
           heldBefore |-> Cardinality(PaddingFiles(tempDir)),
           before |-> tempDir]
    /\ UNCHANGED <<Config, numCPU, memoryMutex, allocators, stepVars, tickApplied, stop, cleanupDone, panicked, startPc, tickLocal,
                   stopPc, stopVia, cpuPool, AllocatedMemory, now, ticks, tickLog,
                   cleanupLog>>

(***************************************************************************)
(* The monitor's life: setup calls, go Start(), ticks, concurrent Stop()   *)
(* calls.  The configuration is the command line's default.                *)
(***************************************************************************)
DefaultConfig == [MemoryPercent |-> 50, CPUPercent |-> 30, DiskPercent |-> 40]

LifeCPUSamples == {10, 30, 50}
LifeMemSamples == {[pct |-> p, total |-> 300000000] : p \in {20, 50, 60}}
LifeDiskSamples == {[pct |-> p, total |-> 40000] : p \in {20, 40, 60}}
LifeDiskFailures == {<<"none", 0>>}

Init == InitWith({DefaultConfig}, {MaxCPU})

Next ==
    \/ CallAllocateMemory(1024 * 1024)
    \/ CallAdjustCPUUsage(10)
    \/ GoStart
    \/ TickerFires
    \/ SelectStop
    \/ TickCheckStop
    \/ SampleFails
    \/ SampleMemory
    \/ \E pct \in LifeCPUSamples : SampleCPU(pct)
    \/ \E d \in LifeDiskSamples : SampleDisk(d.pct, d.total)
    \/ \E f \in LifeDiskFailures : TickAdjustDisk(f[1], f[2])
    \/ TickSleep
    \/ \E m \in LifeMemSamples : ResampleMemory(m.pct, m.total)
    \/ TickAdjustMemory
    \/ TickAdjustCPU
    \/ CleanupCPU
    \/ CleanupMem
    \/ CleanupDisk
    \/ CloseCleanupDone
    \/ TimePasses
    \/ \E c \in Callers : StopSelect(c)
    \/ \E c \in Callers : StopClose(c)
    \/ \E c \in Callers : StopWaitDone(c)
    \/ \E c \in Callers : StopWaitTimeout(c)

Spec == Init /\ [][Next]_vars

(***************************************************************************)
(* The adjust operations on their own: a caller makes exported adjust      *)
(* calls, one after the other, with targets and samples around the band    *)
(* edges and with small and zero capacities.                               *)
(***************************************************************************)
Targets == {0, 3, 50, 100}
AdjustConfigs ==
    {[MemoryPercent |-> t, CPUPercent |-> t, DiskPercent |-> t] : t \in Targets}

\* sampled percentages around target t
Currents(t) ==
    {p \in {0, t - 6, t - 5, t - 1, t, t + 1, t + 5, t + 6, 100} :
        p >= 0 /\ p <= 100}

AdjustMemTotals == {0, 99, 1000000}
AdjustDiskTotals == {0, 99, 20000}
AdjustDiskFailures == {<<"none", 0>>, <<"write", 0>>}

InitAdjust == InitWith(AdjustConfigs, 1 .. MaxCPU)

AdjustMemInputs == Currents(Config.MemoryPercent) \X AdjustMemTotals
AdjustDiskInputs == Currents(Config.DiskPercent) \X AdjustDiskTotals \X AdjustDiskFailures

NextAdjust ==
    \/ \E i \in AdjustMemInputs : CallAdjustMemoryUsage(i[1], i[2])
    \/ \E p \in Currents(Config.CPUPercent) : CallAdjustCPUUsage(p)
    \/ \E i \in AdjustDiskInputs : CallAdjustDiskUsage(i[1], i[2], i[3][1], i[3][2])
    \/ TimePasses

SpecAdjust == InitAdjust /\ [][NextAdjust]_vars

(***************************************************************************)
(* The single-file program's memory pool, driven as its tests drive it:    *)
(* direct calls of allocateMemory, adjustMemoryUsage and releaseMemory on  *)
(* a monitor that was never started.                                       *)
(***************************************************************************)
\* the configuration of the tests
TestConfig == [MemoryPercent |-> 50, CPUPercent |-> 30, DiskPercent |-> 70]

PoolUnchanged ==
    UNCHANGED <<Config, numCPU, memoryMutex, allocators, stepVars, tickApplied, stop, cleanupDone, panicked,
                startPc, tickLocal, stopPc, stopVia, now, ticks, calls, tickLog,
                cleanupLog>>

\* monitor.allocateMemory(bytes)
MainAllocateMemory(bytes) ==
    /\ Len(AllocatedMemory) < MaxBlocks
    /\ AllocatedMemory' = main_allocateMemory(AllocatedMemory, bytes)
    /\ lastCall' =
          [op |-> "alloc", currentPercent |-> 0, total |-> 0, branch |-> "grow",
           amount |-> bytes,
           heldBefore |-> getTotalAllocatedMemory(AllocatedMemory),
           before |-> AllocatedMemory]
    /\ UNCHANGED <<cpuPool, tempDir>>
    /\ PoolUnchanged

\* monitor.adjustMemoryUsage(currentPercent, memInfo)
MainAdjustMemoryUsage(currentPercent, total) ==
    /\ main_adjustMemoryBranch(currentPercent, Config.MemoryPercent) = "grow"
          => Len(AllocatedMemory) < MaxBlocks
    /\ AllocatedMemory' = main_adjustMemoryUsage(AllocatedMemory, currentPercent, total,
                                                 Config.MemoryPercent)
    /\ lastCall' =
          [op |-> "mem", currentPercent |-> currentPercent, total |-> total,
           branch |-> main_adjustMemoryBranch(currentPercent, Config.MemoryPercent),
           amount |-> IF main_adjustMemoryBranch(currentPercent, Config.MemoryPercent) = "grow"
                      THEN PercentOfTotal(Config.MemoryPercent - currentPercent, total)
                      ELSE 0,
           heldBefore |-> getTotalAllocatedMemory(AllocatedMemory),
           before |-> AllocatedMemory]
    /\ UNCHANGED <<cpuPool, tempDir>>
    /\ PoolUnchanged

\* monitor.releaseMemory(currentPercent, memInfo)
MainReleaseMemory(currentPercent, total) ==
    /\ AllocatedMemory' = main_releaseMemory(AllocatedMemory, currentPercent,
                                             Config.MemoryPercent)
    /\ lastCall' =
          [op |-> "release", currentPercent |-> currentPercent, total |-> total,
           branch |-> "shrink", amount |-> 0,
           heldBefore |-> getTotalAllocatedMemory(AllocatedMemory),
           before |-> AllocatedMemory]
    /\ UNCHANGED <<cpuPool, tempDir>>
    /\ PoolUnchanged

MainAllocSizes == {0, 1024 * 1024}
MainMemTotal == 1000000000
MainMemCurrents == {30, 48, 50, 52, 53, 55, 56, 60, 80, 90}
MainReleaseCurrents == {53, 60, 80, 90}

InitMainMemory == InitWith({TestConfig}, {MaxCPU})

NextMainMemory ==
    \/ \E b \in MainAllocSizes : MainAllocateMemory(b)
    \/ \E p \in MainMemCurrents : MainAdjustMemoryUsage(p, MainMemTotal)
    \/ \E p \in MainReleaseCurrents : MainReleaseMemory(p, MainMemTotal)

SpecMainMemory == InitMainMemory /\ [][NextMainMemory]_vars

(***************************************************************************)
(* The CPU spinner pool of pkg/occupy on its own: any sequence of          *)
(* adjustCPUWorkers, stopCPULoad and adjustCPUUsage calls, made one after  *)
(* the other (they serialize on cpuLoadMutex).                             *)
(***************************************************************************)
\* rm.adjustCPUWorkers(targetWorkers)
CpuAdjustWorkers(targetWorkers) ==
    /\ cpuPool' \in adjustCPUWorkers(cpuPool, targetWorkers)
    /\ lastCall' =
          [op |-> "workers", currentPercent |-> 0, total |-> numCPU,
           branch |-> IF targetWorkers > 0 THEN "grow" ELSE "shrink",
           amount |-> targetWorkers,
           heldBefore |-> cpuPool.currentCPUWorkers,
           before |-> cpuPool]
    /\ UNCHANGED <<AllocatedMemory, tempDir>>
    /\ PoolUnchanged

\* rm.stopCPULoad()
CpuStopLoad ==
    /\ cpuPool' \in stopCPULoad(cpuPool)
    /\ lastCall' =
          [op |-> "stopCPU", currentPercent |-> 0, total |-> numCPU,
           branch |-> "shrink", amount |-> 0,
           heldBefore |-> cpuPool.currentCPUWorkers,
           before |-> cpuPool]
    /\ UNCHANGED <<AllocatedMemory, tempDir>>
    /\ PoolUnchanged

\* rm.adjustCPUUsage(currentPercent)
CpuAdjustUsage(currentPercent) ==
    /\ cpuPool' \in adjustCPUUsage(cpuPool, currentPercent, Config.CPUPercent, numCPU)
    /\ lastCall' =
          [op |-> "cpu", currentPercent |-> currentPercent, total |-> numCPU,
           branch |-> adjustCPUBranch(currentPercent, Config.CPUPercent),
           amount |-> IF adjustCPUBranch(currentPercent, Config.CPUPercent) = "grow"
                      THEN cpuTargetWorkers(Config.CPUPercent, numCPU)
                      ELSE 0,
           heldBefore |-> cpuPool.currentCPUWorkers,
           before |-> cpuPool]
    /\ UNCHANGED <<AllocatedMemory, tempDir>>
    /\ PoolUnchanged

CpuConfigs ==
    {[MemoryPercent |-> 50, CPUPercent |-> t, DiskPercent |-> 70] : t \in {30, 50, 100}}

InitCPU == InitWith(CpuConfigs, 1 .. MaxCPU)

NextCPU ==
    \/ \E n \in 0 .. numCPU : CpuAdjustWorkers(n)
    \/ CpuStopLoad
    \/ \E p \in Currents(Config.CPUPercent) : CpuAdjustUsage(p)

SpecCPU == InitCPU /\ [][NextCPU]_vars

(***************************************************************************)
(* The memory pool of pkg/occupy on its own: AllocateMemory and            *)
(* ReleaseMemory called one after the other on a monitor that was never    *)
(* started.                                                                *)
(***************************************************************************)
\* targetReleaseBytes of releaseMemory, after the cap at the bytes held
targetReleaseBytes(mem, currentPercent, total, MemoryPercent) ==
    Min(PercentOfTotal(currentPercent - MemoryPercent, total),
        getTotalAllocatedMemory(mem))

\* rm.AllocateMemory(bytes)
PoolAllocateMemory(bytes) ==
    /\ Len(AllocatedMemory) < MaxChunks
    /\ AllocatedMemory' = allocateMemory(AllocatedMemory, bytes)
    /\ lastCall' =
          [op |-> "alloc", currentPercent |-> 0, total |-> 0, branch |-> "grow",
           amount |-> bytes,
           heldBefore |-> getTotalAllocatedMemory(AllocatedMemory),
           before |-> AllocatedMemory]
    /\ UNCHANGED <<cpuPool, tempDir>>
    /\ PoolUnchanged

\* rm.ReleaseMemory(currentPercent, memInfo)
PoolReleaseMemory(currentPercent, total) ==
    /\ AllocatedMemory' = releaseMemory(AllocatedMemory, currentPercent, total,
                                        Config.MemoryPercent)
    /\ lastCall' =
          [op |-> "release", currentPercent |-> currentPercent, total |-> total,
           branch |-> "shrink",
           amount |-> targetReleaseBytes(AllocatedMemory, currentPercent, total,
                                         Config.MemoryPercent),
           heldBefore |-> getTotalAllocatedMemory(AllocatedMemory),
           before |-> AllocatedMemory]
    /\ UNCHANGED <<cpuPool, tempDir>>
    /\ PoolUnchanged

PoolAllocSizes == {0, 1024 * 1024, chunkSize, chunkSize + 1024 * 1024, 2 * chunkSize}
PoolReleaseInputs == {<<60, 0>>, <<60, 10000000>>, <<90, 10000000>>, <<60, 1000000000>>}

InitMemory == InitWith({TestConfig}, {MaxCPU})

NextMemory ==
    \/ \E b \in PoolAllocSizes : PoolAllocateMemory(b)
    \/ \E i \in PoolReleaseInputs : PoolReleaseMemory(i[1], i[2])

SpecMemory == InitMemory /\ [][NextMemory]_vars

(***************************************************************************)
(* allocateMemory called by several goroutines at once, one step per       *)
(* statement that touches shared state: Lock, the read and the write of    *)
(* rm.AllocatedMemory = append(rm.AllocatedMemory, memory), Unlock.        *)
(***************************************************************************)
AllocUnchanged ==
    UNCHANGED <<Config, numCPU, stepVars, tickApplied, stop, cleanupDone, panicked,
                startPc, tickLocal, stopPc, stopVia, cpuPool, tempDir, now, ticks, calls, tickLog,
                cleanupLog, lastCall>>

\* mutant: allocateMemory does not take the lock
AllocLock_NoMutex(g, bytes) ==
    /\ allocators[g].pc = "idle"
    /\ allocators' = [allocators EXCEPT ![g] =
                         [pc |-> "loop", bytes |-> bytes, remainingBytes |-> bytes,
                          read |-> << >>]]
    /\ UNCHANGED <<memoryMutex, AllocatedMemory>>
    /\ AllocUnchanged

\* go monitor.allocateMemory(bytes): rm.memoryMutex.Lock(); remainingBytes := bytes
AllocLock(g, bytes) ==
    /\ allocators[g].pc = "idle"
    /\ memoryMutex = 0
    /\ memoryMutex' = g
    /\ allocators' = [allocators EXCEPT ![g] =
                         [pc |-> "loop", bytes |-> bytes, remainingBytes |-> bytes,
                          read |-> << >>]]
    /\ UNCHANGED AllocatedMemory
    /\ AllocUnchanged

\* for remainingBytes > 0 { ...; append(rm.AllocatedMemory, memory): the slice is read
AllocRead(g) ==
    /\ allocators[g].pc = "loop"
    /\ allocators[g].remainingBytes > 0
    /\ allocators' = [allocators EXCEPT ![g].pc = "append",
                                        ![g].read = AllocatedMemory]
    /\ UNCHANGED <<memoryMutex, AllocatedMemory>>
    /\ AllocUnchanged

\* rm.AllocatedMemory = <the appended slice>; remainingBytes -= currentChunk
AllocAppend(g) ==
    /\ allocators[g].pc = "append"
    /\ AllocatedMemory' = Append(allocators[g].read,
                                 currentChunk(allocators[g].remainingBytes))
    /\ allocators' = [allocators EXCEPT
                         ![g].pc = "loop",
                         ![g].remainingBytes = @ - currentChunk(@),
                         ![g].read = << >>]
    /\ UNCHANGED memoryMutex
    /\ AllocUnchanged

\* the loop is over: the deferred rm.memoryMutex.Unlock() runs and the call returns
AllocUnlock(g) ==
    /\ allocators[g].pc = "loop"
    /\ allocators[g].remainingBytes = 0
    /\ memoryMutex' = 0
    /\ allocators' = [allocators EXCEPT ![g].pc = "returned"]
    /\ UNCHANGED AllocatedMemory
    /\ AllocUnchanged

AllocSizes == {1024 * 1024, chunkSize}

InitAlloc == InitWith({TestConfig}, {MaxCPU})

NextAlloc ==
    \/ \E g \in Allocators, b \in AllocSizes : AllocLock(g, b)
    \/ \E g \in Allocators : AllocRead(g)
    \/ \E g \in Allocators : AllocAppend(g)
    \/ \E g \in Allocators : AllocUnlock(g)

SpecAlloc == InitAlloc /\ [][NextAlloc]_vars

(***************************************************************************)
(* The padding files on their own: createTempFiles and the two cleanups    *)
(* called one after the other while the clock advances, in a directory     *)
(* that already holds a file with a matching name made by someone else and *)
(* an unrelated file.  First pkg/occupy, then the single-file program.     *)
(***************************************************************************)
DiskCall(op, targetBytes, failKind) ==
    [op |-> op, currentPercent |-> 0, total |-> 0, branch |-> failKind,
     amount |-> targetBytes, heldBefore |-> Cardinality(PaddingFiles(tempDir)),
     before |-> tempDir, ts |-> now]

\* rm.createTempFiles(targetBytes)
PoolCreateTempFiles(targetBytes, failKind, failAt) ==
    /\ tempDir' = createTempFiles(tempDir, targetBytes, now, failKind, failAt)
    /\ lastCall' = DiskCall("create", targetBytes, failKind)
    /\ UNCHANGED <<cpuPool, AllocatedMemory>>
    /\ PoolUnchanged

\* rm.cleanupTempFiles()
PoolCleanupTempFiles ==
    /\ tempDir' = cleanupTempFiles(tempDir)
    /\ lastCall' = DiskCall("cleanup", 0, "none")
    /\ UNCHANGED <<cpuPool, AllocatedMemory>>
    /\ PoolUnchanged

\* rm.cleanupAllTempFiles()
PoolCleanupAllTempFiles ==
    /\ tempDir' = cleanupAllTempFiles(tempDir)
    /\ lastCall' = DiskCall("cleanup", 0, "none")
    /\ UNCHANGED <<cpuPool, AllocatedMemory>>
    /\ PoolUnchanged

\* requests in MiB: nothing, 1 MiB, 5 GiB, 5 GiB + 1 MiB, 12 GiB
DiskRequests == {0, 1, fileSize, fileSize + 1, 12 * 1024}
DiskFailures == {<<"none", 0>>, <<"mkdir", 0>>, <<"create", 1>>, <<"write", 1>>}

InitDisk == InitWith({TestConfig}, {MaxCPU})

NextDisk ==
    \/ \E b \in DiskRequests, f \in DiskFailures : PoolCreateTempFiles(b, f[1], f[2])
    \/ PoolCleanupTempFiles
    \/ PoolCleanupAllTempFiles
    \/ TimePasses

SpecDisk == InitDisk /\ [][NextDisk]_vars

\* monitor.createTempFiles(targetBytes) of the single-file program
MainCreateTempFiles(targetBytes, failKind, failAt) ==
    /\ tempDir' = main_createTempFiles(tempDir, targetBytes, now, stop = "closed",
                                       failKind, failAt)
    /\ lastCall' = DiskCall("create", targetBytes, failKind)
    /\ UNCHANGED <<cpuPool, AllocatedMemory>>
    /\ PoolUnchanged

\* monitor.cleanupTempFiles() of the single-file program
MainCleanupTempFiles ==
    /\ tempDir' = main_cleanupTempFiles(tempDir)
    /\ lastCall' = DiskCall("cleanup", 0, "none")
    /\ UNCHANGED <<cpuPool, AllocatedMemory>>
    /\ PoolUnchanged

MainDiskFailures == {<<"none", 0>>, <<"create", 1>>, <<"write", 1>>}

InitMainDisk == InitWith({TestConfig}, {MaxCPU})

NextMainDisk ==
    \/ \E b \in DiskRequests, f \in MainDiskFailures : MainCreateTempFiles(b, f[1], f[2])
    \/ MainCleanupTempFiles
    \/ TimePasses

SpecMainDisk == InitMainDisk /\ [][NextMainDisk]_vars

(***************************************************************************)
(* The Start loop with one caller of Stop(), on a machine where sampling   *)
(* and the file operations of the disk step may fail.                      *)
(***************************************************************************)
TickDiskFailures == {<<"none", 0>>, <<"mkdir", 0>>, <<"create", 1>>, <<"write", 1>>}

InitTick == InitWith({DefaultConfig}, {MaxCPU})

NextTick ==
    \/ GoStart
    \/ TickerFires
    \/ SelectStop
    \/ TickCheckStop
    \/ SampleFails
    \/ SampleMemory
    \/ \E pct \in LifeCPUSamples : SampleCPU(pct)
    \/ \E d \in LifeDiskSamples : SampleDisk(d.pct, d.total)
    \/ \E f \in TickDiskFailures : TickAdjustDisk(f[1], f[2])
    \/ TickSleep
    \/ \E m \in LifeMemSamples : ResampleMemory(m.pct, m.total)
    \/ TickAdjustMemory
    \/ TickAdjustCPU
    \/ CleanupCPU
    \/ CleanupMem
    \/ CleanupDisk
    \/ CloseCleanupDone
    \/ TimePasses
    \/ StopSelect("first")
    \/ StopClose("first")
    \/ StopWaitDone("first")
    \/ StopWaitTimeout("first")

SpecTick == InitTick /\ [][NextTick]_vars

(***************************************************************************)
(* The CPU load step by step: adjustCPUWorkers with its start and its stop *)
(* (close, bounded wait, reset) and the cpuWorker goroutines.  A worker    *)
(* does not keep the channel it was started with: each of its selects      *)
(* reads the field rm.cpuLoadStop, and its deferred Done() goes to the      *)
(* WaitGroup that is in rm.cpuLoadWg when it runs.  The worker reads the    *)
(* field without holding cpuLoadMutex, so a read may return the current    *)
(* channel or one the field held earlier in the worker's life.             *)
(***************************************************************************)
SpinUnchanged ==
    UNCHANGED <<Config, numCPU, memoryMutex, allocators, tickApplied, creating,
                poolLocks, threads, startedAfterStop, stop, cleanupDone, startPc, tickLocal, stopPc,
                stopVia, AllocatedMemory, tempDir, now, ticks, calls, tickLog,
                cleanupLog, lastCall>>

\* the workers that have not returned
RunningWorkers(s) == {w \in DOMAIN s.workers : s.workers[w].state # "exited"}

\* startCPULoadInternal on spinners s (ActiveCPULoad is false) for n workers:
\* a new channel, wg.Add(1) and go rm.cpuWorker(i) for each worker
spin_start(s, n) ==
    [s EXCEPT !.cpuLoadStop = s.made + 1,
              !.made = s.made + 1,
              !.cpuLoadWg = s.cpuLoadWg + n,
              !.launches = s.launches + 1,
              !.workers = s.workers \o
                  [i \in 1 .. n |-> [gen |-> s.made + 1, wg |-> s.wgGen,
                                     state |-> "running", saw |-> 0, doneOn |-> -1]]]

\* the end of stopCPULoadInternal: a new channel and a new WaitGroup
spin_reset(s) ==
    [s EXCEPT !.cpuLoadStop = s.made + 1,
              !.made = s.made + 1,
              !.cpuLoadWg = 0,
              !.wgGen = s.wgGen + 1,
              !.stopPc = "idle",
              !.restart = 0]

\* adjustCPUWorkers(n), n > 0, on a pool with no active load
SpinStart(n) ==
    /\ ~panicked
    /\ spinners.stopPc = "idle"
    /\ spinners.launches < MaxLaunches
    /\ ~cpuPool.ActiveCPULoad
    /\ cpuPool.targetCPUWorkers # n
    /\ spinners' = spin_start(spinners, n)
    /\ cpuPool' = [cpuPool EXCEPT !.ActiveCPULoad = TRUE,
                                  !.targetCPUWorkers = n,
                                  !.currentCPUWorkers = n,
                                  !.liveWorkers = Cardinality(RunningWorkers(spinners')) ]
    /\ UNCHANGED panicked
    /\ SpinUnchanged

\* adjustCPUWorkers(n) on an active load, n = 0 or n # currentCPUWorkers, up to
\* close(rm.cpuLoadStop) of stopCPULoadInternal
SpinStopClose(n) ==
    /\ ~panicked
    /\ spinners.stopPc = "idle"
    /\ cpuPool.ActiveCPULoad
    /\ cpuPool.targetCPUWorkers # n
    /\ n = 0 \/ (cpuPool.currentCPUWorkers # n /\ spinners.launches < MaxLaunches)
    /\ spinners' = [spinners EXCEPT !.closed = @ \cup {spinners.cpuLoadStop},
                                    !.stopPc = "waiting",
                                    !.restart = n]
    /\ cpuPool' = [cpuPool EXCEPT !.targetCPUWorkers = n]
    /\ UNCHANGED panicked
    /\ SpinUnchanged

\* what follows the select of stopCPULoadInternal: the reset, and the
\* startCPULoadInternal of a restart
spin_finish(s) ==
    IF s.restart > 0 THEN spin_start(spin_reset(s), s.restart) ELSE spin_reset(s)

SpinFinish ==
    /\ spinners' = spin_finish(spinners)
    /\ cpuPool' = [cpuPool EXCEPT !.ActiveCPULoad = spinners.restart > 0,
                                  !.currentCPUWorkers = spinners.restart,
                                  !.liveWorkers = Cardinality(RunningWorkers(spinners')) ]
    /\ UNCHANGED panicked
    /\ SpinUnchanged

\* case <-done: rm.cpuLoadWg.Wait() has returned
SpinStopDone ==
    /\ ~panicked
    /\ spinners.stopPc = "waiting"
    /\ spinners.cpuLoadWg = 0
    /\ SpinFinish

\* mutant: the select of stopCPULoadInternal has no timer case
SpinStopTimeout_NoTimer ==
    /\ ~panicked
    /\ spinners.stopPc = "waiting"
    /\ spinners.cpuLoadWg > 0
    /\ FALSE
    /\ SpinFinish

\* case <-time.After(3 * time.Second)
SpinStopTimeout ==
    /\ ~panicked
    /\ spinners.stopPc = "waiting"
    /\ spinners.cpuLoadWg > 0
    /\ SpinFinish

\* case <-rm.cpuLoadStop of cpuWorker: the channel it read is closed
WorkerSeesStop(w) ==
    /\ ~panicked
    /\ w \in DOMAIN spinners.workers
    /\ spinners.workers[w].state = "running"
    /\ \E ch \in spinners.workers[w].gen .. spinners.cpuLoadStop :
          /\ ch \in spinners.closed
          /\ spinners' = [spinners EXCEPT !.workers[w].state = "exiting",
                                          !.workers[w].saw = ch]
    /\ UNCHANGED <<cpuPool, panicked>>
    /\ SpinUnchanged

\* the deferred rm.cpuLoadWg.Done() of cpuWorker; a counter below zero panics
WorkerDone(w) ==
    /\ ~panicked
    /\ w \in DOMAIN spinners.workers
    /\ spinners.workers[w].state = "exiting"
    /\ spinners' = [spinners EXCEPT !.workers[w].state = "exited",
                                    !.workers[w].doneOn = spinners.wgGen,
                                    !.cpuLoadWg = @ - 1]
    /\ panicked' = (spinners.cpuLoadWg = 0)
    /\ cpuPool' = [cpuPool EXCEPT !.liveWorkers = Cardinality(RunningWorkers(spinners'))]
    /\ SpinUnchanged

InitSpin == InitWith({DefaultConfig}, {MaxCPU})

NextSpin ==
    \/ \E n \in 1 .. numCPU : SpinStart(n)
    \/ \E n \in 0 .. numCPU : SpinStopClose(n)
    \/ SpinStopDone
    \/ SpinStopTimeout
    \/ \E w \in 1 .. MaxLaunches * MaxCPU : WorkerSeesStop(w)
    \/ \E w \in 1 .. MaxLaunches * MaxCPU : WorkerDone(w)

SpecSpin == InitSpin /\ [][NextSpin]_vars

(***************************************************************************)
(* createTempFiles of pkg/occupy step by step (os.Create, file.Write of    *)
(* the whole file, return), while another thread calls Stop().  The         *)
(* function reads rm.stop nowhere.                                          *)
(***************************************************************************)
CreateUnchanged ==
    UNCHANGED <<Config, numCPU, memoryMutex, allocators, tickApplied, spinners,
                poolLocks, threads, startedAfterStop, stop, cleanupDone, panicked, startPc, tickLocal,
                stopPc, stopVia, cpuPool, AllocatedMemory, now, ticks, tickLog,
                cleanupLog, lastCall>>

\* rm.createTempFiles(targetBytes): the lock, the directory, the locals
CreateBegin(targetBytes) ==
    /\ ~panicked
    /\ creating.pc = "idle"
    /\ calls < MaxCalls
    /\ calls' = calls + 1
    /\ creating' = [pc |-> "loop", remainingBytes |-> targetBytes, fileIndex |-> 0,
                    afterStop |-> 0, cleaned |-> FALSE]
    /\ UNCHANGED tempDir
    /\ CreateUnchanged

\* for remainingBytes > 0 { ... os.Create(filePath) }: an error makes the call return
CreateOpen(ok) ==
    /\ ~panicked
    /\ creating.pc = "loop"
    /\ creating.remainingBytes > 0
    /\ IF ok
       THEN /\ tempDir' = WriteFile(tempDir, PadName(now, creating.fileIndex), 0)
            /\ creating' = [creating EXCEPT !.pc = "write"]
       ELSE /\ creating' = [creating EXCEPT !.pc = "idle"]
            /\ UNCHANGED tempDir
    /\ UNCHANGED calls
    /\ CreateUnchanged

\* file.Write(data) of the whole file and file.Close(); on an error the file
\* is removed and the call returns.  A file that was removed while it was
\* open does not come back by being written.
CreateWrite(ok) ==
    /\ ~panicked
    /\ creating.pc = "write"
    /\ LET currentFileSize == IF creating.remainingBytes < fileSize
                              THEN creating.remainingBytes ELSE fileSize
           name == PadName(now, creating.fileIndex)
       IN  IF ok
           THEN /\ tempDir' = IF name \in DOMAIN tempDir
                               THEN WriteFile(tempDir, name, currentFileSize)
                               ELSE tempDir
                /\ creating' = [creating EXCEPT
                       !.pc = "loop",
                       !.remainingBytes = @ - currentFileSize,
                       !.fileIndex = @ + 1,
                       !.afterStop = IF stop = "closed" THEN @ + 1 ELSE @]
           ELSE /\ tempDir' = RemoveFile(tempDir, name)
                /\ creating' = [creating EXCEPT !.pc = "idle"]
    /\ UNCHANGED calls
    /\ CreateUnchanged

\* remainingBytes is 0: the loop ends and createTempFiles returns
CreateReturn ==
    /\ ~panicked
    /\ creating.pc = "loop"
    /\ creating.remainingBytes = 0
    /\ creating' = [creating EXCEPT !.pc = "idle"]
    /\ UNCHANGED <<tempDir, calls>>
    /\ CreateUnchanged

InitCreate == InitWith({TestConfig}, {MaxCPU})

NextCreate ==
    \/ \E b \in DiskRequests : CreateBegin(b)
    \/ \E ok \in BOOLEAN : CreateOpen(ok)
    \/ \E ok \in BOOLEAN : CreateWrite(ok)
    \/ CreateReturn
    \/ StopSelect("first")
    \/ StopClose("first")
    \/ StopWaitTimeout("first")

SpecCreate == InitCreate /\ [][NextCreate]_vars

(***************************************************************************)
(* The pool locks of pkg/occupy.  Each function is the mutex it locks on   *)
(* entry and unlocks by defer (none for most), and the calls to other      *)
(* methods of the monitor it can make before it returns, in order.  Two     *)
(* threads run them: the goroutine of Start() and a caller of the exported  *)
(* methods.  sync.Mutex is not reentrant: a Lock() by the holder blocks.    *)
(***************************************************************************)
\* mutant: stopCPULoadInternal takes cpuLoadMutex itself
LockOf_InternalStopLocks(fn) ==
    CASE fn \in {"stopCPULoad", "adjustCPUWorkers", "stopCPULoadInternal"} -> "cpuLoadMutex"
      [] fn \in {"allocateMemory", "releaseMemory", "cleanupMemory"} -> "memoryMutex"
      [] fn \in {"createTempFiles", "cleanupTempFiles"} -> "diskMutex"
      [] OTHER -> ""

\* the mutex a function locks on entry, "" if it locks none
LockOf(fn) ==
    CASE fn \in {"stopCPULoad", "adjustCPUWorkers"} -> "cpuLoadMutex"
      [] fn \in {"allocateMemory", "releaseMemory", "cleanupMemory"} -> "memoryMutex"
      [] fn \in {"createTempFiles", "cleanupTempFiles"} -> "diskMutex"
      [] OTHER -> ""

\* the sequences of calls a function can make, one per path through it
CallPaths(fn) ==
    CASE fn = "monitorAndAdjust" ->
            {<< >>, <<"adjustDiskUsage">>, <<"adjustDiskUsage", "adjustMemoryUsage">>,
             <<"adjustDiskUsage", "adjustMemoryUsage", "adjustCPUUsage">>}
      [] fn = "cleanupAllResources" ->
            {<<"stopCPULoad", "cleanupMemory", "cleanupAllTempFiles">>}
      [] fn = "adjustDiskUsage" -> {<< >>, <<"createTempFiles">>, <<"cleanupTempFiles">>}
      [] fn = "adjustMemoryUsage" -> {<< >>, <<"allocateMemory">>, <<"releaseMemory">>}
      [] fn = "adjustCPUUsage" -> {<< >>, <<"adjustCPUWorkers">>}
      [] fn = "startCPULoad" -> {<<"adjustCPUWorkers">>}
      [] fn = "adjustCPUWorkers" ->
            {<< >>, <<"stopCPULoadInternal">>, <<"startCPULoadInternal">>,
             <<"stopCPULoadInternal", "startCPULoadInternal">>}
      [] fn = "stopCPULoad" -> {<< >>, <<"stopCPULoadInternal">>}
      [] fn \in {"releaseMemory", "cleanupMemory"} -> {<< >>, <<"getTotalAllocatedMemory">>}
      [] OTHER -> {<< >>}

\* what each thread calls from outside the pools: Start() its tick and its
\* cleanup pass, the caller the exported methods
EntryPoints ==
    [loop |-> {"monitorAndAdjust", "cleanupAllResources"},
     caller |-> {"adjustDiskUsage", "adjustCPUUsage", "adjustMemoryUsage",
                 "allocateMemory", "releaseMemory", "cleanupAllResources",
                 "cleanupAllTempFiles"}]

LockUnchanged ==
    UNCHANGED <<Config, numCPU, memoryMutex, allocators, tickApplied, spinners,
                creating, startedAfterStop, stop, cleanupDone, panicked, startPc, tickLocal, stopPc,
                stopVia, cpuPool, AllocatedMemory, tempDir, now, ticks, calls,
                tickLog, cleanupLog, lastCall>>

\* the frame a thread is in, and its stack without that frame
TopFrame(t) == threads[t][Len(threads[t])]
Callers_of(t) == SubSeq(threads[t], 1, Len(threads[t]) - 1)

\* thread t calls fn from outside
ThreadCall(t, fn) ==
    /\ threads[t] = << >>
    /\ fn \in EntryPoints[t]
    /\ threads' = [threads EXCEPT ![t] = <<[fn |-> fn, pc |-> "enter", todo |-> << >>]>>]
    /\ UNCHANGED poolLocks
    /\ LockUnchanged

\* the function entered takes its lock, if it has one and the lock is free,
\* and goes down one of its paths
ThreadEnter(t) ==
    /\ threads[t] # << >>
    /\ TopFrame(t).pc = "enter"
    /\ LET fn == TopFrame(t).fn
       IN  /\ LockOf(fn) # "" => poolLocks[LockOf(fn)] = ""
           /\ poolLocks' = IF LockOf(fn) # ""
                           THEN [poolLocks EXCEPT ![LockOf(fn)] = t]
                           ELSE poolLocks
           /\ \E path \in CallPaths(fn) :
                 threads' = [threads EXCEPT ![t] =
                    Append(Callers_of(t), [fn |-> fn, pc |-> "body", todo |-> path])]
    /\ LockUnchanged

\* the next call of the path
ThreadCallee(t) ==
    /\ threads[t] # << >>
    /\ TopFrame(t).pc = "body"
    /\ TopFrame(t).todo # << >>
    /\ threads' = [threads EXCEPT ![t] =
          Callers_of(t)
             \o <<[TopFrame(t) EXCEPT !.todo = Tail(@)],
                  [fn |-> Head(TopFrame(t).todo), pc |-> "enter", todo |-> << >>]>>]
    /\ UNCHANGED poolLocks
    /\ LockUnchanged

\* return: the deferred Unlock of the function's own mutex runs
ThreadReturn(t) ==
    /\ threads[t] # << >>
    /\ TopFrame(t).pc = "body"
    /\ TopFrame(t).todo = << >>
    /\ poolLocks' = IF LockOf(TopFrame(t).fn) # ""
                    THEN [poolLocks EXCEPT ![LockOf(TopFrame(t).fn)] = ""]
                    ELSE poolLocks
    /\ threads' = [threads EXCEPT ![t] = Callers_of(t)]
    /\ LockUnchanged

InitLocks == InitWith({DefaultConfig}, {MaxCPU})

NextLocks ==
    \/ \E t \in Threads : \E fn \in EntryPoints[t] : ThreadCall(t, fn)
    \/ \E t \in Threads : ThreadEnter(t)
    \/ \E t \in Threads : ThreadCallee(t)
    \/ \E t \in Threads : ThreadReturn(t)

SpecLocks == InitLocks /\ [][NextLocks]_vars

(***************************************************************************)
(* createTempFiles of pkg/occupy step by step while another thread runs     *)
(* cleanupAllTempFiles, which takes no lock (Glob and the loop of           *)
(* os.Remove, taken as one step).                                           *)
(***************************************************************************)
\* rm.cleanupAllTempFiles() during a createTempFiles call
CleanupAllWhileCreating ==
    /\ ~panicked
    /\ creating.pc # "idle"
    /\ ~creating.cleaned
    /\ tempDir' = cleanupAllTempFiles(tempDir)
    /\ creating' = [creating EXCEPT !.cleaned = TRUE]
    /\ UNCHANGED calls
    /\ CreateUnchanged

InitRace == InitWith({TestConfig}, {MaxCPU})

NextRace ==
    \/ \E b \in DiskRequests : CreateBegin(b)
    \/ \E ok \in BOOLEAN : CreateOpen(ok)
    \/ \E ok \in BOOLEAN : CreateWrite(ok)
    \/ CreateReturn
    \/ CleanupAllWhileCreating

SpecRace == InitRace /\ [][NextRace]_vars

(***************************************************************************)
(* The CPU load of the single-file program, call by call.  A frame of a     *)
(* thread is a function it is in: pc "lock" before the function's           *)
(* cpuLoadMutex.Lock() returns, "body" after it, "called" while a callee    *)
(* runs.  sync.Mutex is not reentrant: Lock() waits until the mutex is      *)
(* free, whoever holds it.  A channel that was never made is nil.           *)
(***************************************************************************)
\* NewResourceMonitor sets config, stop and allocatedMemory; cpuLoadStop keeps
\* its zero value, the nil channel
main_NewSpinners == [NoSpinners EXCEPT !.cpuLoadStop = -1]

\* the workers startCPULoad launches: int(NumCPU * CPUPercent / 100), at least 1
main_targetCores(CPUPercent, cpus) ==
    IF (cpus * CPUPercent) \div 100 < 1 THEN 1 ELSE (cpus * CPUPercent) \div 100

\* the branch adjustCPUUsage takes
main_adjustCPUBranch(pool, currentPercent, CPUPercent) ==
    IF currentPercent < CPUPercent - 5 /\ ~pool.ActiveCPULoad THEN "grow"
    ELSE IF currentPercent > CPUPercent + 5 /\ pool.ActiveCPULoad THEN "shrink"
    ELSE "noop"

\* startCPULoad: no channel is made; the workers select on rm.cpuLoadStop
main_startCPULoad(pool, CPUPercent, cpus) ==
    IF pool.ActiveCPULoad THEN pool
    ELSE [pool EXCEPT !.ActiveCPULoad = TRUE,
                      !.liveWorkers = main_targetCores(CPUPercent, cpus)]

\* whether stopCPULoad does anything
main_stopActs(pool, s) == pool.ActiveCPULoad /\ s.cpuLoadStop # -1

MainCPUUnchanged ==
    UNCHANGED <<Config, numCPU, memoryMutex, allocators, tickApplied, creating,
                startedAfterStop, stop, cleanupDone, panicked, startPc, tickLocal,
                stopPc, stopVia, AllocatedMemory, tempDir, now, ticks, calls, tickLog, cleanupLog>>

\* a call of fn that has not taken the mutex yet
main_Frame(fn, currentPercent) ==
    [fn |-> fn, pc |-> "lock", pct |-> currentPercent, branch |-> "noop",
     before |-> << >>]

\* thread t calls rm.adjustCPUUsage(currentPercent)
MainAdjustCPUCall(t, currentPercent) ==
    /\ threads[t] = << >>
    /\ threads' = [threads EXCEPT ![t] =
                      <<main_Frame("main_adjustCPUUsage", currentPercent)>>]
    /\ UNCHANGED <<poolLocks, cpuPool, spinners, lastCall>>
    /\ MainCPUUnchanged

\* thread t calls rm.cleanupAllResources(), which begins with rm.stopCPULoad()
MainCleanupCall(t) ==
    /\ threads[t] = << >>
    /\ threads' = [threads EXCEPT ![t] = <<main_Frame("main_stopCPULoad", 0)>>]
    /\ UNCHANGED <<poolLocks, cpuPool, spinners, lastCall>>
    /\ MainCPUUnchanged

\* rm.cpuLoadMutex.Lock() returns
MainLock(t) ==
    /\ threads[t] # << >>
    /\ TopFrame(t).pc = "lock"
    /\ poolLocks["cpuLoadMutex"] = ""
    /\ poolLocks' = [poolLocks EXCEPT !["cpuLoadMutex"] = t]
    /\ threads' = [threads EXCEPT ![t] =
          Append(Callers_of(t), [TopFrame(t) EXCEPT !.pc = "body"])]
    /\ UNCHANGED <<cpuPool, spinners, lastCall>>
    /\ MainCPUUnchanged

\* the body of adjustCPUUsage: startCPULoad runs to its end, stopCPULoad is
\* called with the mutex held; what is left is the deferred Unlock
MainAdjustCPUBody(t) ==
    /\ threads[t] # << >>
    /\ TopFrame(t).fn = "main_adjustCPUUsage"
    /\ TopFrame(t).pc = "body"
    /\ LET branch == main_adjustCPUBranch(cpuPool, TopFrame(t).pct, Config.CPUPercent)
           frame == [TopFrame(t) EXCEPT !.pc = "ret", !.branch = branch,
                                        !.before = cpuPool]
       IN  /\ cpuPool' = IF branch = "grow"
                         THEN main_startCPULoad(cpuPool, Config.CPUPercent, numCPU)
                         ELSE cpuPool
           /\ threads' = [threads EXCEPT ![t] =
                 IF branch = "shrink"
                 THEN Callers_of(t) \o <<frame, main_Frame("main_stopCPULoad", 0)>>
                 ELSE Append(Callers_of(t), frame)]
    /\ UNCHANGED <<poolLocks, spinners, lastCall>>
    /\ MainCPUUnchanged

\* the body of stopCPULoad: with a load active and a channel to close, the
\* channel is closed, the workers are waited for (3 s at most, after which up
\* to MaxStale of them still run), and the fields are reset; otherwise nothing
\* is changed
MainStopCPUBody(t) ==
    /\ threads[t] # << >>
    /\ TopFrame(t).fn = "main_stopCPULoad"
    /\ TopFrame(t).pc = "body"
    /\ IF main_stopActs(cpuPool, spinners)
       THEN /\ \E left \in 0..MaxStale :
                  /\ left <= cpuPool.liveWorkers
                  /\ cpuPool' = [cpuPool EXCEPT !.ActiveCPULoad = FALSE,
                                                !.liveWorkers = left]
            /\ spinners' = [spinners EXCEPT
                               !.closed = @ \cup {spinners.cpuLoadStop},
                               !.made = @ + 1,
                               !.cpuLoadStop = spinners.made + 1]
       ELSE UNCHANGED <<cpuPool, spinners>>
    /\ threads' = [threads EXCEPT ![t] =
          Append(Callers_of(t),
                 [TopFrame(t) EXCEPT !.pc = "ret",
                     !.before = [pool |-> cpuPool, ch |-> spinners.cpuLoadStop]])]
    /\ UNCHANGED <<poolLocks, lastCall>>
    /\ MainCPUUnchanged

\* the deferred rm.cpuLoadMutex.Unlock() runs and the function returns
MainReturn(t) ==
    /\ threads[t] # << >>
    /\ TopFrame(t).pc = "ret"
    /\ poolLocks' = [poolLocks EXCEPT !["cpuLoadMutex"] = ""]
    /\ threads' = [threads EXCEPT ![t] = Callers_of(t)]
    /\ lastCall' = [NoCall EXCEPT !.op = TopFrame(t).fn,
                                  !.currentPercent = TopFrame(t).pct,
                                  !.branch = TopFrame(t).branch,
                                  !.before = TopFrame(t).before]
    /\ UNCHANGED <<cpuPool, spinners>>
    /\ MainCPUUnchanged

MainCPUSamples == {10, 30, 50}

InitMainCPU ==
    /\ InitFields({DefaultConfig}, {MaxCPU})
    /\ spinners = main_NewSpinners

NextMainCPU ==
    \/ \E t \in Threads : \E c \in MainCPUSamples : MainAdjustCPUCall(t, c)
    \/ \E t \in Threads : MainCleanupCall(t)
    \/ \E t \in Threads : MainLock(t)
    \/ \E t \in Threads : MainAdjustCPUBody(t)
    \/ \E t \in Threads : MainStopCPUBody(t)
    \/ \E t \in Threads : MainReturn(t)

SpecMainCPU == InitMainCPU /\ [][NextMainCPU]_vars

(***************************************************************************)
(* Start() called again on the monitor after a Start() has returned: the    *)
(* new call makes its own ticker and enters the same select loop, rm.stop   *)
(* and rm.cleanupDone are the channels NewResourceMonitor made.             *)
(***************************************************************************)
\* monitor.Start() once more, after the earlier call has returned
StartAgain ==
    /\ ~panicked
    /\ startPc = "returned"
    /\ startPc' = "select"
    /\ UNCHANGED <<Config, numCPU, memoryMutex, allocators, stepVars, tickApplied,
                   stop, cleanupDone, panicked, tickLocal, stopPc, stopVia, cpuPool,
                   AllocatedMemory, tempDir, now, ticks, calls, tickLog, cleanupLog,
                   lastCall>>

InitRestart == InitWith({DefaultConfig}, {MaxCPU})

NextRestart ==
    \/ NextTick
    \/ StartAgain

SpecRestart == InitRestart /\ [][NextRestart]_vars

(***************************************************************************)
(* go monitor.Start() overtaken by Stop(): the goroutine is launched but    *)
(* reaches the select of the loop only after Stop() has closed rm.stop, as  *)
(* when the termination signal arrives right after the launch.  The ticker  *)
(* may still fire before the select takes case <-rm.stop.                   *)
(***************************************************************************)
\* the goroutine of go monitor.Start() reaches the select with rm.stop closed
GoStartLate ==
    /\ ~panicked
    /\ startPc = "idle"
    /\ stop = "closed"
    /\ startPc' = "select"
    /\ startedAfterStop' = TRUE
    /\ UNCHANGED <<Config, numCPU, memoryMutex, allocators, spinners, creating,
                   poolLocks, threads, tickApplied, stop, cleanupDone, panicked,
                   tickLocal, stopPc, stopVia, cpuPool, AllocatedMemory, tempDir,
                   now, ticks, calls, tickLog, cleanupLog, lastCall>>

\* the goroutine reaches the select while rm.stop is open
GoStartEarly ==
    /\ stop = "open"
    /\ GoStart

InitLate == InitWith({DefaultConfig}, {MaxCPU})

NextLate ==
    \/ GoStartEarly
    \/ GoStartLate
    \/ TickerFires
    \/ SelectStop
    \/ TickCheckStop
    \/ SampleFails
    \/ SampleMemory
    \/ \E pct \in LifeCPUSamples : SampleCPU(pct)
    \/ \E d \in LifeDiskSamples : SampleDisk(d.pct, d.total)
    \/ \E f \in TickDiskFailures : TickAdjustDisk(f[1], f[2])
    \/ TickSleep
    \/ \E m \in LifeMemSamples : ResampleMemory(m.pct, m.total)
    \/ TickAdjustMemory
    \/ TickAdjustCPU
    \/ CleanupCPU
    \/ CleanupMem
    \/ CleanupDisk
    \/ CloseCleanupDone
    \/ TimePasses
    \/ StopSelect("first")
    \/ StopClose("first")
    \/ StopWaitDone("first")
    \/ StopWaitTimeout("first")

(***************************************************************************)
(* Scheduling.  A goroutine that can take a step takes one (weak           *)
(* fairness on the steps of Start and of each Stop call, once begun).  A   *)
(* select with several ready cases picks one at random, so the stop case   *)
(* of the loop's select is taken if it is ready again and again (strong    *)
(* fairness).  Nothing obliges the callers to launch Start, to call Stop   *)
(* or to make exported calls, nor the clock or the ticker to advance.      *)
(***************************************************************************)
StartProgress ==
    \/ TickCheckStop
    \/ SampleFails
    \/ SampleMemory
    \/ \E pct \in LifeCPUSamples : SampleCPU(pct)
    \/ \E d \in LifeDiskSamples : SampleDisk(d.pct, d.total)
    \/ \E f \in LifeDiskFailures : TickAdjustDisk(f[1], f[2])
    \/ TickSleep
    \/ \E m \in LifeMemSamples : ResampleMemory(m.pct, m.total)
    \/ TickAdjustMemory
    \/ TickAdjustCPU
    \/ CleanupCPU
    \/ CleanupMem
    \/ CleanupDisk
    \/ CloseCleanupDone

StopProgress(c) == StopClose(c) \/ StopWaitDone(c) \/ StopWaitTimeout(c)

LiveSpec ==
    /\ Init
    /\ [][Next]_vars
    /\ WF_vars(StartProgress)
    /\ SF_vars(SelectStop)
    /\ \A c \in Callers : WF_vars(StopProgress(c))

\* the step-by-step CPU load with the select of stopCPULoadInternal taking one
\* of its cases: <-done once Wait() has returned, the timer after 3 s
LiveSpin == InitSpin /\ [][NextSpin]_vars /\ WF_vars(SpinStopDone \/ SpinStopTimeout)

\* the late Start() under the scheduling of LiveSpec
LiveLate ==
    /\ InitLate
    /\ [][NextLate]_vars
    /\ WF_vars(StartProgress)
    /\ SF_vars(SelectStop)
    /\ WF_vars(StopProgress("first"))

(***************************************************************************)
(* Properties.                                                             *)
(***************************************************************************)

\* C1: two Stop() calls issued concurrently while the Start loop runs close the
\* stop signal exactly once: neither call fails by closing it a second time.
C1_ConcurrentStopsNeverFail ==
    startPc # "idle" => \A c \in Callers : stopPc[c] # "panic"

\* C2: a Stop() call that begins after the stop signal has been closed returns
\* at once, through the first select, and changes nothing of the monitor: not
\* the channels, not the pools, not the position of the Start loop or of the
\* cleanup pass.
C2_LateStopIsNoOp ==
    [][\A c \in Callers :
          (stopPc[c] = "idle" /\ stop = "closed" /\ stopPc'[c] # "idle")
          => /\ stopPc'[c] = "returned"
             /\ stopVia'[c] = "early"
             /\ UNCHANGED <<stop, cleanupDone, panicked, startPc, cleanupLog,
                            cpuPool, AllocatedMemory, tempDir>>]_vars

\* C2 witness: one call returned through the first select after another call
\* had closed the signal and returned
C2_Witness ==
    \E c, d \in Callers :
        /\ stopVia[c] = "early"
        /\ stopVia[d] \in {"done", "timeout"}

\* C3: once the Start loop runs and the stop signal is closed, the cleanup
\* pass eventually completes and the cleanup-complete signal is closed.
C3_CleanupEventuallyCompletes ==
    (startPc # "idle" /\ stop = "closed") ~> (cleanupDone = "closed")

C5_StopWithoutStartStopsCPU ==
    \A c \in Callers :
        (stopVia[c] \in {"done", "timeout"} /\ startPc = "idle")
            => ~cpuPool.ActiveCPULoad

\* C6: every Stop() call that has begun eventually returns.
C6_EveryStopReturns ==
    \A c \in Callers : (stopPc[c] \in {"close", "wait"}) ~> (stopPc[c] = "returned")

\* C7: within one tick the adjustments are invoked in the order disk, CPU,
\* memory.
TickRank == [disk |-> 1, cpu |-> 2, mem |-> 3]
C7_TickOrderDiskCpuMemory ==
    \A i, j \in DOMAIN tickLog :
        i < j => TickRank[tickLog[i]] < TickRank[tickLog[j]]

\* the target percentage of the resource the last exported adjust call was for
LastTarget ==
    CASE lastCall.op = "mem" -> Config.MemoryPercent
      [] lastCall.op = "cpu" -> Config.CPUPercent
      [] OTHER -> Config.DiskPercent

\* C8: each adjust operation grows only if current < target - band, shrinks
\* only if current > target + band, and takes no action when
\* target - band <= current <= target + band, with one band (5 points) on
\* both sides of the target.
C8_SymmetricBand ==
    lastCall.op # "none" =>
        /\ lastCall.branch = "grow" => lastCall.currentPercent < LastTarget - tolerance
        /\ lastCall.branch = "shrink" => lastCall.currentPercent > LastTarget + tolerance
        /\ (/\ LastTarget - tolerance <= lastCall.currentPercent
            /\ lastCall.currentPercent <= LastTarget + tolerance)
              => lastCall.branch = "noop"

\* C9: whenever an adjust operation takes its grow branch, the amount it asks
\* for is at least one byte (memory, disk) or one worker (CPU).
C9_GrowAmountPositive ==
    lastCall.branch = "grow" => lastCall.amount >= 1

C11_MemoryAdjustmentLogic ==
    lastCall.op = "mem" =>
        /\ lastCall.currentPercent < Config.MemoryPercent
              => Len(AllocatedMemory) > Len(lastCall.before)
        /\ (/\ Config.MemoryPercent <= lastCall.currentPercent
            /\ lastCall.currentPercent <= Config.MemoryPercent + 2)
              => AllocatedMemory = lastCall.before
        /\ (/\ lastCall.currentPercent >= Config.MemoryPercent + 10
            /\ Len(lastCall.before) > 0)
              => Len(AllocatedMemory) < Len(lastCall.before)

\* C12: adjustCPUUsage called while no CPU load is active starts the load
\* whenever current is below the target (current = target - 5 included) and
\* leaves it inactive whenever current >= target.
C12_CPULoadThresholds ==
    (lastCall.op = "cpu" /\ ~lastCall.before.ActiveCPULoad) =>
        /\ lastCall.currentPercent < Config.CPUPercent => cpuPool.ActiveCPULoad
        /\ lastCall.currentPercent >= Config.CPUPercent => ~cpuPool.ActiveCPULoad

\* C13: when adjustCPUUsage is called with current > target + 5 while a CPU
\* load is active, it returns with the load inactive, no current workers and
\* a target of no workers.
C13_ShrinkStopsAllWorkers ==
    (/\ lastCall.op = "cpu"
     /\ lastCall.before.ActiveCPULoad
     /\ lastCall.currentPercent > Config.CPUPercent + tolerance)
        => /\ ~cpuPool.ActiveCPULoad
           /\ cpuPool.currentCPUWorkers = 0
           /\ cpuPool.targetCPUWorkers = 0

\* C13 witness: such a call was made on a load of more than one worker
C13_Witness ==
    /\ lastCall.op = "cpu"
    /\ lastCall.before.ActiveCPULoad
    /\ lastCall.before.currentCPUWorkers > 1
    /\ lastCall.currentPercent > Config.CPUPercent + tolerance
    /\ ~cpuPool.ActiveCPULoad

\* C18: after any sequence of adjustCPUWorkers and stopCPULoad calls that ends
\* with adjustCPUWorkers(n), n > 0, exactly n spinner goroutines are live;
\* after one that ends with adjustCPUWorkers(0) or stopCPULoad, once the call
\* and its bounded wait are over, none is.
C18_LiveWorkersConverge ==
    /\ (lastCall.op = "workers" /\ lastCall.amount > 0)
          => cpuPool.liveWorkers = lastCall.amount
    /\ ((lastCall.op = "workers" /\ lastCall.amount = 0) \/ lastCall.op = "stopCPU")
          => cpuPool.liveWorkers = 0

\* number of chunks allocateMemory appends for a request of `bytes`
ChunksFor(bytes) == (bytes + chunkSize - 1) \div chunkSize

\* C14: allocateMemory(B) leaves the chunks held before as they are and appends
\* ceil(B / 100MB) chunks, each of 100MB except the last, which holds what is
\* left of B, so that the bytes held grow by exactly B; for B = 0 nothing
\* changes.
C14_AllocateAddsExactly ==
    lastCall.op = "alloc" =>
        LET B == lastCall.amount
            n0 == Len(lastCall.before)
            k == ChunksFor(B)
        IN  /\ Len(AllocatedMemory) = n0 + k
            /\ SubSeq(AllocatedMemory, 1, n0) = lastCall.before
            /\ \A i \in 1 .. k - 1 : AllocatedMemory[n0 + i] = chunkSize
            /\ k > 0 => AllocatedMemory[n0 + k] = B - (k - 1) * chunkSize
            /\ getTotalAllocatedMemory(AllocatedMemory) = lastCall.heldBefore + B
            /\ B = 0 => AllocatedMemory = lastCall.before

\* C14 witness: a request that is not a whole number of chunks, on a pool that
\* already held something: two chunks appended, the last one the remainder
C14_Witness ==
    /\ lastCall.op = "alloc"
    /\ lastCall.amount = chunkSize + 1024 * 1024
    /\ Len(lastCall.before) > 0
    /\ Len(AllocatedMemory) = Len(lastCall.before) + 2
    /\ AllocatedMemory[Len(AllocatedMemory)] = 1024 * 1024

\* C15: after releaseMemory has released its target X (capped at the bytes
\* held), the bytes held are the bytes held before minus X.
C15_ReleaseAccounting ==
    lastCall.op = "release" =>
        getTotalAllocatedMemory(AllocatedMemory) = lastCall.heldBefore - lastCall.amount

\* the share of the held memory, in percent, that the release policy asks for
\* at an excess of e points
PolicyRatio(e) == IF e <= 5 THEN 30 ELSE IF e <= 10 THEN 50 ELSE 70

\* C16: a shrink of a non-empty pool at an excess of e = current - target
\* points releases 30% of the bytes held if e <= 5, 50% if e <= 10 and 70%
\* otherwise; a pool of 10 equal chunks shrunk at an excess of 40 points keeps
\* at most 3 chunks.
C16_ReleasePolicy ==
    (/\ lastCall.op = "release" \/ (lastCall.op = "mem" /\ lastCall.branch = "shrink")
     /\ Len(lastCall.before) > 0)
        => LET e == lastCall.currentPercent - Config.MemoryPercent
               released == lastCall.heldBefore - getTotalAllocatedMemory(AllocatedMemory)
           IN  /\ released = PercentOfTotal(PolicyRatio(e), lastCall.heldBefore)
               /\ (/\ Len(lastCall.before) = 10
                   /\ \A i \in 1 .. 10 : lastCall.before[i] = lastCall.before[1]
                   /\ e = 40)
                     => Len(AllocatedMemory) <= 3

\* the goroutines whose allocateMemory call has returned, and the bytes they
\* asked for
Returned == {g \in Allocators : allocators[g].pc = "returned"}
RECURSIVE BytesOf(_)
BytesOf(S) ==
    IF S = {} THEN 0
    ELSE LET g == CHOOSE x \in S : TRUE
         IN  allocators[g].bytes + BytesOf(S \ {g})

\* C17: whenever no allocateMemory call is under way, the pool holds one block
\* for each of the k concurrent calls that have returned, and the bytes they
\* asked for in total (k*b for k calls of b bytes): no allocation is lost or
\* made twice.
C17_ConcurrentAllocationsSerialize ==
    (\A g \in Allocators : allocators[g].pc \in {"idle", "returned"})
        => /\ Len(AllocatedMemory) = Cardinality(Returned)
           /\ getTotalAllocatedMemory(AllocatedMemory) = BytesOf(Returned)

\* C17 witness: every goroutine has made its call of 1 MiB and returned, and
\* the pool holds a block for each of them
C17_Witness ==
    /\ Returned = Allocators
    /\ Len(AllocatedMemory) = NumAllocators
    /\ \A g \in Allocators : allocators[g].bytes = 1024 * 1024

\* number of padding files a request of `bytes` is to produce
FilesFor(bytes) == (bytes + fileSize - 1) \div fileSize

\* the files a createTempFiles call made at time ts is to write
CreatedNames(bytes, ts) == {PadName(ts, i) : i \in 0 .. FilesFor(bytes) - 1}

\* C19: a createTempFiles(B) call on which no file operation fails writes
\* exactly ceil(B / 5GB) padding files, each of 5GB except the last, which
\* holds what is left of B (12GB: 5GB, 5GB, 2GB; 0 bytes: no file), and
\* leaves every other file as it was.
C19_CreateFileSizes ==
    (lastCall.op = "create" /\ lastCall.branch = "none") =>
        LET B == lastCall.amount
            k == FilesFor(B)
            created == CreatedNames(B, lastCall.ts)
        IN  /\ DOMAIN tempDir = DOMAIN lastCall.before \cup created
            /\ \A i \in 0 .. k - 2 : tempDir[PadName(lastCall.ts, i)] = fileSize
            /\ k > 0 => tempDir[PadName(lastCall.ts, k - 1)] = B - (k - 1) * fileSize
            /\ \A n \in DOMAIN lastCall.before \ created : tempDir[n] = lastCall.before[n]

\* the files the engine created: createTempFiles names them with the time
EngineFiles(dir) == {n \in DOMAIN dir : Matches(n) /\ n.ts >= 0}

\* C20: after a padding-file cleanup no file the engine created is left, and
\* every file that was there before and that the engine did not create is
\* still there with its content; on a directory without padding files the
\* cleanup changes nothing.
C20_CleanupOnlyEngineFiles ==
    lastCall.op = "cleanup" =>
        /\ EngineFiles(tempDir) = {}
        /\ \A n \in DOMAIN lastCall.before \ EngineFiles(lastCall.before) :
              n \in DOMAIN tempDir /\ tempDir[n] = lastCall.before[n]
        /\ PaddingFiles(lastCall.before) = {} => tempDir = lastCall.before

SamplingFailed ==
    /\ startPc \in {"smem", "scpu", "sdisk", "smem2"}
    /\ startPc' = "select"

\* C22: when a sampling call of a tick fails (memory, CPU or disk at the
\* start of the tick, or the memory re-sample after the disk step), that tick
\* has changed none of the three pools and changes none, and the loop is back
\* at its select for the next tick.
C22_FailedSamplingSkipsAdjustments ==
    [][SamplingFailed => (tickApplied = {} /\ UNCHANGED <<cpuPool, AllocatedMemory, tempDir>>)]_vars

\* C23: the Start loop keeps ticking until Stop() is called: the stop signal
\* is closed only by a Stop() call that went on to close it, and Start() has
\* left its loop (it runs the cleanup pass or has returned) only when the stop
\* signal is closed; no failure inside a tick takes it there.
C23_LoopEndsOnlyOnStop ==
    /\ stop = "closed" => \E c \in Callers : stopPc[c] \in {"wait", "returned"} /\ stopVia[c] # "early"
    /\ startPc \in {"cleanupCPU", "cleanupMem", "cleanupDisk", "closeDone", "returned"}
          => stop = "closed"

\* C23 witness: the loop is in its second tick with the stop signal open,
\* after a tick whose disk step failed on its second file (the first file of
\* the request is there, the second is not)
C23_Witness ==
    /\ stop = "open"
    /\ ticks = 2
    /\ startPc = "chk1"
    /\ \E n \in DOMAIN tempDir :
          /\ n.pad /\ n.ts >= 0 /\ n.idx = 0 /\ tempDir[n] = fileSize
          /\ PadName(n.ts, 1) \notin DOMAIN tempDir

\* C24: between the operations of the CPU pool (whenever cpuLoadMutex is not
\* held), currentCPUWorkers equals the number of spinner goroutines that are
\* still running, also after a stop whose bounded wait timed out.
C24_CurrentWorkersAreRunning ==
    cpuPool.currentCPUWorkers = cpuPool.liveWorkers

\* C25: a spinner task belongs to the generation that launched it: the stop
\* token on which it leaves is the one of its own generation, while a load is
\* active and no stop is under way every task that runs was launched for the
\* token in force, and its completion is counted by the accounting of its own
\* generation; also when the stop that ended its generation timed out.
C25_WorkersStayInTheirGeneration ==
    /\ \A w \in DOMAIN spinners.workers :
          LET k == spinners.workers[w]
          IN  /\ k.state # "running" => k.saw = k.gen
              /\ k.state = "exited" => k.doneOn = k.wg
    /\ (cpuPool.ActiveCPULoad /\ spinners.stopPc = "idle")
          => \A w \in RunningWorkers(spinners) : spinners.workers[w].gen = spinners.cpuLoadStop
    /\ ~panicked

\* the bytes held by the files of `names` in dir
RECURSIVE BytesIn(_, _)
BytesIn(dir, names) ==
    IF names = {}
    THEN 0
    ELSE LET n == CHOOSE m \in names : TRUE
         IN  dir[n] + BytesIn(dir, names \ {n})

\* C26: no two padding files the monitor creates get the same name, across
\* successive createTempFiles calls (also within one second) and within one
\* call: a createTempFiles(B) call on which nothing fails gives none of its
\* files the name of a padding file that is already there, and the padding
\* files hold B bytes more after it than before (k grows of B leave k * B).
C26_PaddingNamesUnique ==
    (lastCall.op = "create" /\ lastCall.branch = "none") =>
        /\ CreatedNames(lastCall.amount, lastCall.ts) \cap DOMAIN lastCall.before = {}
        /\ BytesIn(tempDir, PaddingFiles(tempDir))
              = BytesIn(lastCall.before, PaddingFiles(lastCall.before)) + lastCall.amount

\* C27: createTempFiles looks at the stop signal before every write: once the
\* signal is closed it writes nothing more, apart from the one write that may
\* have passed its check already, and it returns without a partly written
\* file left behind.
C27_CreateStopsOnSignal ==
    /\ creating.afterStop <= 1
    /\ (creating.pc = "idle" /\ stop = "closed")
          => \A n \in DOMAIN tempDir : (n.pad /\ n.ts >= 0) => tempDir[n] > 0

\* the size createTempFiles(bytes) gives its file of index i
SizeOfFile(bytes, i) ==
    IF i < FilesFor(bytes) - 1 THEN fileSize ELSE bytes - (FilesFor(bytes) - 1) * fileSize

\* C28: when creating or writing one padding file fails during
\* createTempFiles(B), nothing of that file is left and the other files of the
\* request are created all the same: of the files the request asks for, only
\* the one that failed is missing, and each of the others has its full size.
C28_FailedFileSkippedRestCreated ==
    (/\ lastCall.op = "create"
     /\ lastCall.branch \in {"create", "write"}
     /\ CreatedNames(lastCall.amount, lastCall.ts) \cap DOMAIN lastCall.before = {})
        => LET created == CreatedNames(lastCall.amount, lastCall.ts)
           IN  /\ Cardinality(created \ DOMAIN tempDir) <= 1
               /\ \A n \in created \cap DOMAIN tempDir :
                     tempDir[n] = SizeOfFile(lastCall.amount, n.idx)

\* a step of monitorAndAdjust that calls one of the three adjustments
AdjustmentStep ==
    /\ startPc \in {"adisk", "amem", "acpu"}
    /\ startPc' # startPc

\* C29: once the stop signal is closed, monitorAndAdjust starts no further
\* adjustment: the stop check it reaches next ends the tick there, with the
\* pools as they are (what the tick has applied is kept, nothing is applied
\* after the check); a tick that begins with the signal closed changes no
\* pool; and the pools change during a tick in the adjustment steps only,
\* each of which comes directly after such a check.
C29_NoAdjustmentAfterStopSeen ==
    [][/\ (startPc \in DOMAIN AfterCheck /\ stop = "closed" /\ startPc' # startPc)
          => /\ startPc' = "select"
             /\ UNCHANGED <<cpuPool, AllocatedMemory, tempDir>>
       /\ (startPc = "chk1" /\ stop = "closed") => tickApplied = {}
       /\ (startPc \in DOMAIN AfterCheck \/ startPc \in {"smem", "scpu", "sdisk", "sleep", "smem2"})
          => UNCHANGED <<cpuPool, AllocatedMemory, tempDir>>
       /\ AdjustmentStep => \E k \in DOMAIN AfterCheck : AfterCheck[k] = startPc
      ]_vars

\* C29 witness: the stop signal was closed in the middle of a tick that has
\* applied its disk adjustment, and the tick is at the stop check that ends it
C29_Witness ==
    /\ stop = "closed"
    /\ startPc = "chk5"
    /\ tickApplied = {"disk"}

\* the pool mutexes a thread holds
HeldBy(t) == {m \in Mutexes : poolLocks[m] = t}

\* the thread is at a Lock() of a mutex that is held
Blocked(t) ==
    /\ threads[t] # << >>
    /\ TopFrame(t).pc = "enter"
    /\ LockOf(TopFrame(t).fn) # ""
    /\ poolLocks[LockOf(TopFrame(t).fn)] # ""

\* C30: no thread holds two of the pool locks (cpuLoadMutex, memoryMutex,
\* diskMutex) at once; a thread that is in no pool operation holds none, a
\* lock is held only by a thread that is inside the function that took it;
\* and a thread that waits for a pool lock waits for another thread that is
\* not itself waiting, so the threads never block each other for good.
C30_PoolLocksNeverNest ==
    \A t \in Threads :
        /\ Cardinality(HeldBy(t)) <= 1
        /\ threads[t] = << >> => HeldBy(t) = {}
        /\ \A m \in HeldBy(t) :
              \E i \in DOMAIN threads[t] :
                  threads[t][i].pc = "body" /\ LockOf(threads[t][i].fn) = m
        /\ Blocked(t) =>
              \E u \in Threads \ {t} :
                  poolLocks[LockOf(TopFrame(t).fn)] = u /\ ~Blocked(u)

\* C30 witness: the Start goroutine is inside stopCPULoadInternal, called
\* from adjustCPUWorkers with cpuLoadMutex held, and the caller's thread waits
\* at the Lock() of the same mutex
C30_Witness ==
    /\ poolLocks["cpuLoadMutex"] = "loop"
    /\ Len(threads["loop"]) = 4
    /\ TopFrame("loop").fn = "stopCPULoadInternal"
    /\ Blocked("caller")

\* C31: adjustCPUWorkers(n) called while m workers run, m # n and both > 0,
\* stops the running workers before it starts the new ones: when it returns,
\* exactly n spinner goroutines are live, currentCPUWorkers = n and the load
\* is active.
C31_RestartReplacesGeneration ==
    (/\ lastCall.op = "workers"
     /\ lastCall.amount > 0
     /\ lastCall.before.ActiveCPULoad
     /\ lastCall.before.currentCPUWorkers > 0
     /\ lastCall.before.currentCPUWorkers # lastCall.amount
     /\ lastCall.before.liveWorkers = lastCall.before.currentCPUWorkers
     /\ lastCall.before.targetCPUWorkers = lastCall.before.currentCPUWorkers)
        => /\ cpuPool.ActiveCPULoad
           /\ cpuPool.currentCPUWorkers = lastCall.amount
           /\ cpuPool.liveWorkers = lastCall.amount

C33_ReleaseKeepsPrefix ==
    lastCall.op = "release" =>
        LET n == Len(AllocatedMemory)
        IN  /\ n <= Len(lastCall.before)
            /\ \A i \in 1 .. n - 1 : AllocatedMemory[i] = lastCall.before[i]
            /\ n > 0 => AllocatedMemory[n] <= lastCall.before[n]

\* C33 witness: a release has dropped the newest chunk and cut the one before
\* it, with an older chunk kept as it was
C33_Witness ==
    /\ lastCall.op = "release"
    /\ Len(AllocatedMemory) = 2
    /\ Len(lastCall.before) = 3
    /\ AllocatedMemory[2] < lastCall.before[2]
    /\ AllocatedMemory[1] = lastCall.before[1]

\* C34: the padding-file cleanup is safe to run while a createTempFiles call
\* is in progress: whatever the interleaving, once both have returned, no
\* padding file written by that call is left in the directory.
C34_CleanupSafeDuringCreate ==
    (creating.pc = "idle" /\ creating.cleaned)
        => \A n \in DOMAIN tempDir : ~(n.pad /\ n.ts >= 0)

\* C35: in the single-file program, adjustCPUUsage called with a sample above
\* CPUPercent + 5 while the load is active does not wait for ever on
\* cpuLoadMutex: the thread that holds the mutex is never the one waiting in
\* stopCPULoad's Lock() for it, and a call that took the shrink branch has
\* returned with activeCPULoad false.
SelfBlocked(t) ==
    /\ threads[t] # << >>
    /\ TopFrame(t).pc = "lock"
    /\ poolLocks["cpuLoadMutex"] = t
C35_ShrinkDoesNotSelfBlock ==
    /\ \A t \in Threads : ~SelfBlocked(t)
    /\ (lastCall.op = "main_adjustCPUUsage" /\ lastCall.branch = "shrink")
          => ~cpuPool.ActiveCPULoad

\* C36: in the single-file program, a CPU load started by the first
\* adjustCPUUsage on a fresh monitor is stopped by the stopCPULoad of
\* cleanupAllResources: once that call has returned, activeCPULoad is false
\* and the channel the workers select on (non-nil from construction) is closed.
C36_CleanupStopsFirstLoad ==
    (lastCall.op = "main_stopCPULoad" /\ lastCall.before.pool.ActiveCPULoad)
       => /\ ~cpuPool.ActiveCPULoad
          /\ lastCall.before.ch # -1
          /\ lastCall.before.ch \in spinners.closed

\* C37: whatever Start() and Stop() calls are made on one monitor, Start()
\* called again included, the cleanup pass runs at most once (three steps in
\* all) and no Start() panics closing the cleanup-complete channel a second
\* time.
C37_CleanupAtMostOnce ==
    /\ Len(cleanupLog) <= 3
    /\ startPc # "panic"

\* C38: in pkg/occupy, between calls of adjustCPUUsage, adjustCPUWorkers,
\* stopCPULoad and cleanupAllResources (cpuLoadMutex free), ActiveCPULoad is
\* true exactly when targetCPUWorkers > 0; while it is true currentCPUWorkers
\* equals targetCPUWorkers, while it is false currentCPUWorkers is 0.
C38_ActiveIffTargetPositive ==
    /\ cpuPool.ActiveCPULoad <=> cpuPool.targetCPUWorkers > 0
    /\ cpuPool.ActiveCPULoad => cpuPool.currentCPUWorkers = cpuPool.targetCPUWorkers
    /\ ~cpuPool.ActiveCPULoad => cpuPool.currentCPUWorkers = 0

\* C39: when Stop() has closed the stop signal before the Start loop begins,
\* Start changes no pool (no worker, no chunk, no padding file of its own),
\* runs each step of the cleanup pass once, and in the end has closed the
\* cleanup-complete signal and returned.
OwnPadding == {n \in PaddingFiles(tempDir) : n.ts >= 0}
C39_LateStartOnlyCleansUp ==
    /\ [](startedAfterStop =>
            /\ cpuPool = NewCPUPool
            /\ AllocatedMemory = << >>
            /\ OwnPadding = {}
            /\ tickApplied = {}
            /\ \E k \in 0 .. 3 : cleanupLog = SubSeq(<<"cpu", "mem", "disk">>, 1, k)
            /\ startPc = "returned" =>
                  /\ cleanupLog = <<"cpu", "mem", "disk">>
                  /\ cleanupDone = "closed")
    /\ startedAfterStop ~> (startPc = "returned")

\* C39 witness: a Start() that began after the stop has returned, and its
\* ticker fired on the way
C39_Witness ==
    /\ startedAfterStop
    /\ startPc = "returned"
    /\ ticks > 0
    /\ cleanupDone = "closed"

====
